---- MODULE Spec2Model ----
(***************************************************************************)
(* Recipe ingestion pipeline of covrd-api:                                 *)
(*   scripts/data_ingestion/base_ingester.py      (BaseIngester)           *)
(*   scripts/data_ingestion/themealdb_ingester.py (TheMealDBIngester)      *)
(*   app/models/recipe.py                         (the recipes table)      *)
(* One ingestion run is a sequential process: run_ingestion fetches the    *)
(* raw records (category enumeration, random top-up, dedup, truncate),     *)
(* then normalizes and saves them one at a time, and prints its summary.   *)
(* Runs follow one another on a shared store; each run has a new ingester. *)
(***************************************************************************)
EXTENDS Integers, Sequences, FiniteSets, TLC

----------------------------------------------------------------------------
(* Bounds of the model *)

\* catalog identifiers (idMeal) are 1..MaxId
MaxId == 2
\* longest member list a category listing returns
MaxPerCat == 2
\* most records the catalog hands out during one fetch
MaxGathered == 2
\* small limits are 0..MaxLimit (0 is falsy: "no limit", like None)
MaxLimit == 2
\* one limit large enough for the random top-up cap to bind
BigLimit == 52
\* random calls whose outcome is chosen one by one; later calls share one outcome
MaxRandomHead == 2
\* ingestion runs executed one after another
MaxRuns == 2
\* longest gathered sequence given to the dedup and truncation alone
MaxDedupLen == 4
\* save_recipe calls made on the gateway alone
MaxSaveCalls == 3

\* ingredients in a list handed to the classifier
MaxIngredients == 3

\* rows of the recipes table the reclassification tool scans
MaxRows == 4

\* ingredient slots of a raw record filled one by one
MaxSlots == 2

\* records an ingestion run beside another process has to save
MaxTodo == 2

\* phrases in an instruction text
MaxPhrases == 2

\* ingredient counts from 0 up to this one, besides the large ones
MaxSmallCount == 3

\* longest ingredient list whose orders are compared
MaxOrderLen == 2

(* Program constants *)

\* len(categories), themealdb_ingester.py:124-127
NumCategories == 9
\* min(remaining, 50), themealdb_ingester.py:141
RandomCap == 50

----------------------------------------------------------------------------
(* Values *)

Min(a, b) == IF a <= b THEN a ELSE b

Ids == 1..MaxId

\* external_source values, app/models/recipe.py:50
Sources == {"themealdb", "spoonacular"}

\* the dedup key of a stored row
Keys == Sources \X Ids

\* a raw record of the catalog: its idMeal, and whether one of its
\* strIngredientN / strMeasureN fields is null (JSON null -> None)
RawRecords == [idMeal : Ids, nullField : BOOLEAN]

Limits == (0..MaxLimit) \cup {BigLimit}

\* the outcome of one _fetch_json call for a detail or random record:
\* it raises ("fail"), the answer has "meals": null ("null"), or a record
CallOutcomes ==
    [kind : {"fail", "null"}, idMeal : {1}, nullField : {FALSE}]
        \cup [kind : {"ok"}, idMeal : Ids, nullField : BOOLEAN]

\* the outcome of a category listing call: it raises, "meals" is null,
\* or the member ids
Listings ==
    [kind : {"fail", "null"}, meals : {<< >>}]
        \cup [kind : {"ok"},
              meals : UNION {[1..n -> Ids] : n \in 1..MaxPerCat}]

RecordOf(o) == [idMeal |-> o.idMeal, nullField |-> o.nullField]

----------------------------------------------------------------------------
(* TheMealDBIngester: the fetch *)

\* what a call hands to its caller: a value, or a raise
Returned(v) == [raised |-> FALSE, value |-> v]

Raise == [raised |-> TRUE, value |-> << >>]

\* (mutant) the detail loop with "break" for "continue": a detail call
\* that raises ends the loop
RECURSIVE DetailLoopBreak(_, _, _)
DetailLoopBreak(details, i, acc) ==
    IF i > Len(details) THEN acc
    ELSE IF details[i].kind = "ok"
         THEN DetailLoopBreak(details, i + 1, Append(acc, RecordOf(details[i])))
         ELSE IF details[i].kind = "fail" THEN acc
         ELSE DetailLoopBreak(details, i + 1, acc)

\* the loop of fetch_recipes_by_category over the listed meals: a detail
\* call that raises is caught inside the loop and skipped, an answer with
\* no meal adds nothing
RECURSIVE DetailLoop(_, _, _)
DetailLoop(details, i, acc) ==
    IF i > Len(details) THEN acc
    ELSE IF details[i].kind = "ok"
         THEN DetailLoop(details, i + 1, Append(acc, RecordOf(details[i])))
         ELSE DetailLoop(details, i + 1, acc)

\* fetch_recipes_by_category: a raise of the listing call is caught and []
\* returned; [] when nothing is listed; else the detailed records
FetchRecipesByCategory(listing, details) ==
    IF listing.kind = "fail" THEN Returned(<< >>)
    ELSE IF Len(listing.meals) = 0 THEN Returned(<< >>)
    ELSE Returned(DetailLoop(details, 1, << >>))

\* the outcome of the i-th call of fetch_random_recipes
RandomOutcome(head, tail, i) == IF i <= Len(head) THEN head[i] ELSE tail

\* the loop of fetch_random_recipes: count calls, a raise is caught and
\* skipped, the records of the calls that answered one are kept
RECURSIVE RandomLoop(_, _, _, _, _)
RandomLoop(count, head, tail, i, acc) ==
    IF i > count THEN acc
    ELSE IF RandomOutcome(head, tail, i).kind = "ok"
         THEN RandomLoop(count, head, tail, i + 1,
                         Append(acc, RecordOf(RandomOutcome(head, tail, i))))
         ELSE RandomLoop(count, head, tail, i + 1, acc)

FetchRandomRecipes(count, head, tail) ==
    Returned(RandomLoop(count, head, tail, 1, << >>))

\* the guard of the category loop: "if limit and len(all_recipes) >= limit: break"
LimitReached(lim, n) == lim # 0 /\ n >= lim

\* (mutant) the random call count without the cap
RandomCountUncapped(lim, n) == IF lim # 0 /\ n < lim THEN lim - n ELSE 0

\* the number of random calls of strategy 2 (0 when it is skipped)
RandomCount(lim, n) ==
    IF lim # 0 /\ n < lim THEN Min(lim - n, RandomCap) ELSE 0

\* the dedup loop: seen_ids / unique_recipes, first occurrence kept
RECURSIVE DedupLoop(_, _, _, _)
DedupLoop(all, i, seen, unique) ==
    IF i > Len(all) THEN unique
    ELSE IF all[i].idMeal \notin seen
         THEN DedupLoop(all, i + 1, seen \cup {all[i].idMeal}, Append(unique, all[i]))
         ELSE DedupLoop(all, i + 1, seen, unique)

RemoveDuplicates(all) == DedupLoop(all, 1, {}, << >>)

\* "if limit: unique_recipes = unique_recipes[:limit]"
ApplyLimit(unique, lim) ==
    IF lim # 0 THEN SubSeq(unique, 1, Min(lim, Len(unique))) ELSE unique

\* (mutant) truncation before the dedup
FetchResultTruncateFirst(all, lim) == RemoveDuplicates(ApplyLimit(all, lim))

\* the value fetch_recipes returns for the gathered records
FetchResult(all, lim) == ApplyLimit(RemoveDuplicates(all), lim)

----------------------------------------------------------------------------
(* BaseIngester: normalization and the persistence gateway *)

\* normalize_recipe raises on a record with a null ingredient or measure
\* field: _extract_ingredients calls .strip() on raw_recipe.get(key, "")
NormalizeRaises(raw) == raw.nullField

\* the identity normalize_recipe gives the record
Normalize(raw) == [external_id |-> raw.idMeal, external_source |-> "themealdb"]

\* the number of stored rows
RECURSIVE SumOver(_, _)
SumOver(rows, keys) ==
    IF keys = {} THEN 0
    ELSE LET k == CHOOSE x \in keys : TRUE
         IN rows[k] + SumOver(rows, keys \ {k})

RowCount(rows) == SumOver(rows, Keys)

\* (mutant) the existence check against another source's rows
ExistingOtherSource(rows, key) == rows[<<"spoonacular", key[2]>>] > 0

\* db.query(Recipe).filter(external_id == .., external_source == ..).first()
Existing(rows, key) == rows[key] > 0

\* db.add(recipe); db.commit()
Insert(rows, key) == [rows EXCEPT ![key] = @ + 1]

\* (mutant) save_recipe without the existence check
SaveRecipeNoCheck(rows, key, fault) ==
    IF fault # "none" THEN [rows |-> rows, outcome |-> "Error"]
    ELSE [rows |-> Insert(rows, key), outcome |-> "Saved"]

\* (mutant) save_recipe whose failed write stays in the table
SaveRecipeNoRollback(rows, key, fault) ==
    IF fault = "query" THEN [rows |-> rows, outcome |-> "Error"]
    ELSE IF Existing(rows, key) THEN [rows |-> rows, outcome |-> "SkippedDuplicate"]
    ELSE IF fault = "commit" THEN [rows |-> Insert(rows, key), outcome |-> "Error"]
    ELSE [rows |-> Insert(rows, key), outcome |-> "Saved"]

\* save_recipe on the committed rows; fault is where the storage call
\* raises: "query" (the existence check), "commit" (the write) or "none".
\* A raise is caught and followed by db.rollback(): the committed rows stay
\* as they were.
SaveRecipe(rows, key, fault) ==
    IF fault = "query" THEN [rows |-> rows, outcome |-> "Error"]
    ELSE IF Existing(rows, key) THEN [rows |-> rows, outcome |-> "SkippedDuplicate"]
    ELSE IF fault = "commit" THEN [rows |-> rows, outcome |-> "Error"]
    ELSE [rows |-> Insert(rows, key), outcome |-> "Saved"]

\* (mutant) save_recipe that does not count the records it skips
CountOutcomeNoSkip(st, outcome) ==
    CASE outcome = "Saved" -> [st EXCEPT !.total_saved = @ + 1]
      [] outcome = "SkippedDuplicate" -> st
      [] outcome = "Error" -> [st EXCEPT !.total_errors = @ + 1]

\* the counter save_recipe increments for each outcome
CountOutcome(st, outcome) ==
    CASE outcome = "Saved" -> [st EXCEPT !.total_saved = @ + 1]
      [] outcome = "SkippedDuplicate" -> [st EXCEPT !.total_skipped = @ + 1]
      [] outcome = "Error" -> [st EXCEPT !.total_errors = @ + 1]

Faults == {"none", "query", "commit"}

\* self.stats of a new ingester
NewStats ==
    [total_fetched |-> 0, total_processed |-> 0, total_saved |-> 0,
     total_skipped |-> 0, total_errors |-> 0,
     start_time |-> "None", end_time |-> "None"]

\* the latest two save_recipe calls, the newest last
Remember(calls, call) ==
    IF Len(calls) < 2 THEN Append(calls, call) ELSE <<calls[2], call>>

----------------------------------------------------------------------------
(* State *)

VARIABLES
    pc,           \* where run_ingestion is: idle, fetching, gathered, processing, done, fatal
    runs,         \* ingestion runs started so far
    limit,        \* run_ingestion's limit (0: None or 0, alike to every "if limit")
    dry_run,      \* run_ingestion's dry_run
    catIdx,       \* categories listed so far in fetch_recipes
    all_recipes,  \* fetch_recipes' all_recipes, the gathered records
    obtained,     \* the records the answered detail and random calls returned, in call order
    someOk,       \* some network call of this fetch answered
    someFailed,   \* some network call of this fetch raised
    afterCats,    \* len(all_recipes) when the category loop ended
    randomCalls,  \* random calls made by this fetch
    closeFailed,  \* closing the session raised in fetch_recipes' finally clause
    fetchRaised,  \* fetch_recipes ended by raising
    raw_recipes,  \* run_ingestion's raw_recipes, what fetch_recipes returned
    idx,          \* the loop index i of run_ingestion
    stats,        \* the ingester's self.stats
    recipes,      \* the recipes table: rows per (external_source, external_id)
    recipes0,     \* the recipes table when the run started
    attempted,    \* idMeal of each "Processing recipe i/n" line of this run
    summaries,    \* print_summary calls of this run
    raised,       \* run_ingestion ended by raising to its caller
    saves,        \* the ingester's latest two save_recipe calls: key, outcome, row count before
    ingredients,      \* an ingredient list handed to detect_dietary_restrictions
    dietary_flags,    \* what BaseIngester.detect_dietary_restrictions returned (<< >>: not called)
    fixer_flags,      \* what DietaryFlagFixer.detect_dietary_restrictions returned (<< >>: not called)
    instructions,     \* an instruction text handed to estimate_cooking_times
    num_ingredients,  \* the ingredient count handed to estimate_cooking_times
    time_estimates,   \* what estimate_cooking_times returned (<< >>: not called)
    table,            \* the rows of the recipes table with their columns, by id
    table0,           \* the rows when run_analysis started
    fix_pc,           \* where run_analysis is: idle, scanning, done
    recipe_id,        \* run_analysis' recipe_id (0: none)
    restriction_type, \* run_analysis' restriction_type ("None": none)
    fix_dry_run,      \* run_analysis' dry_run
    recipes_to_check, \* run_analysis' recipes_to_check: the rows as they were loaded
    fix_idx,          \* the loop index i of run_analysis
    changes,          \* what fix_recipe_flags computed for the latest record (<< >>: none yet)
    fixes_made,       \* the fixer's self.fixes_made
    total_recipes_changed, \* run_analysis' total_recipes_changed
    fix_summaries,    \* print_fix_summary calls
    raw_recipe,       \* a raw record of the catalog handed to the normalizer, field by field
    extracted,        \* what _extract_ingredients did with it (<< >>: not called)
    normalized_recipe, \* what normalize_recipe did with it (<< >>: not called)
    workers,          \* ingestion runs that execute side by side: where each is in its loop and in save_recipe
    db_recipe,        \* the row fix_recipe_flags holds in its session, not yet committed (<< >>: none)
    seen              \* the rows the latest query of a reader returned

\* the state of an ingestion run and its store
ingestVars == <<pc, runs, limit, dry_run, catIdx, all_recipes, obtained, someOk,
          someFailed, afterCats, randomCalls, closeFailed, fetchRaised,
          raw_recipes, idx, stats, recipes, recipes0, attempted, summaries,
          raised, saves>>

\* the inputs and results of the classifier and of the estimator
pureVars == <<ingredients, dietary_flags, fixer_flags, instructions,
              num_ingredients, time_estimates>>

\* the state of the reclassification tool and its view of the table
fixVars == <<table, table0, fix_pc, recipe_id, restriction_type, fix_dry_run,
             recipes_to_check, fix_idx, changes, fixes_made,
             total_recipes_changed, fix_summaries>>

\* the input and the results of the normalizer on a whole raw record
extVars == <<raw_recipe, extracted, normalized_recipe>>

\* processes that share the table: ingestion runs, the session of the
\* reclassification tool, a reader
concVars == <<workers, db_recipe, seen>>

vars == <<ingestVars, pureVars, fixVars, extVars, concVars>>

\* the locals of fetch_recipes and what is recorded of its calls
gatherVars == <<catIdx, all_recipes, obtained, someOk, someFailed, afterCats,
                randomCalls>>

\* the states of the orchestrator's state machine
Phase ==
    CASE pc = "idle" -> "Idle"
      [] pc \in {"fetching", "gathered"} -> "Fetching"
      [] pc = "processing" -> "Processing"
      [] pc = "done" -> "Done"
      [] pc = "fatal" -> "FatalError"

\* the stores a run can start from: no two rows share a key; the rows are
\* those of earlier themealdb runs and possibly one row of another source
InitialStores ==
    {s \in [Keys -> {0, 1}] :
        \A k \in Keys : (k[1] # "themealdb" /\ k[2] # 1) => s[k] = 0}

\* the flag kinds DietaryFlagFixer keeps a ledger for
TrackedKinds == {"vegetarian", "vegan", "gluten_free", "dairy_free", "nut_free"}

\* self.fixes_made of a new DietaryFlagFixer
NewFixesMade == [k \in TrackedKinds |-> [fixed |-> 0, examples |-> << >>]]

\* no classifier or estimator call has been made
PureIdle ==
    /\ ingredients = << >>
    /\ dietary_flags = << >>
    /\ fixer_flags = << >>
    /\ instructions = << >>
    /\ num_ingredients = 0
    /\ time_estimates = << >>

\* no reclassification has been started; the detailed table is not observed
FixIdle ==
    /\ table = << >>
    /\ table0 = << >>
    /\ fix_pc = "idle"
    /\ recipe_id = 0
    /\ restriction_type = "None"
    /\ fix_dry_run = FALSE
    /\ recipes_to_check = << >>
    /\ fix_idx = 1
    /\ changes = << >>
    /\ fixes_made = NewFixesMade
    /\ total_recipes_changed = 0
    /\ fix_summaries = 0

\* no process runs beside the one at work
ConcIdle ==
    /\ workers = << >>
    /\ db_recipe = << >>
    /\ seen = << >>

\* no raw record has been handed to the normalizer
ExtIdle ==
    /\ raw_recipe = << >>
    /\ extracted = << >>
    /\ normalized_recipe = << >>

\* an ingester before a run, on one of the initial stores
IngestIdle ==
    /\ pc = "idle"
    /\ runs = 0
    /\ limit = 0
    /\ dry_run = FALSE
    /\ catIdx = 0
    /\ all_recipes = << >>
    /\ obtained = << >>
    /\ someOk = FALSE
    /\ someFailed = FALSE
    /\ afterCats = 0
    /\ randomCalls = 0
    /\ closeFailed = FALSE
    /\ fetchRaised = FALSE
    /\ raw_recipes = << >>
    /\ idx = 1
    /\ stats = NewStats
    /\ recipes \in InitialStores
    /\ recipes0 = recipes
    /\ attempted = << >>
    /\ summaries = 0
    /\ raised = FALSE
    /\ saves = << >>

Init == IngestIdle /\ PureIdle /\ FixIdle /\ ExtIdle /\ ConcIdle

----------------------------------------------------------------------------
(* Actions *)

\* a caller creates an ingester and calls run_ingestion(limit, dry_run):
\* start_time is set and fetch_recipes begins
StartRun(lim, dry) ==
    /\ UNCHANGED <<pureVars, fixVars, extVars, concVars>>
    /\ pc \in {"idle", "done", "fatal"}
    /\ runs < MaxRuns
    /\ runs' = runs + 1
    /\ pc' = "fetching"
    /\ limit' = lim
    /\ dry_run' = dry
    /\ catIdx' = 0
    /\ all_recipes' = << >>
    /\ obtained' = << >>
    /\ someOk' = FALSE
    /\ someFailed' = FALSE
    /\ afterCats' = 0
    /\ randomCalls' = 0
    /\ closeFailed' = FALSE
    /\ fetchRaised' = FALSE
    /\ raw_recipes' = << >>
    /\ idx' = 1
    /\ stats' = [NewStats EXCEPT !.start_time = "set"]
    /\ recipes0' = recipes
    /\ attempted' = << >>
    /\ summaries' = 0
    /\ raised' = FALSE
    /\ saves' = << >>
    /\ UNCHANGED recipes

\* the finally clause of run_ingestion: end_time is set, print_summary called
Finally(st) ==
    /\ stats' = [st EXCEPT !.end_time = "set"]
    /\ summaries' = summaries + 1

\* (mutant) the raise of the fetch is logged and swallowed
FetchFailedSwallowed ==
    /\ pc' = "done"
    /\ Finally(stats)
    /\ UNCHANGED <<raw_recipes, raised>>

\* "except Exception" around the fetch: logged as fatal and raised again
FetchFailed ==
    /\ pc' = "fatal"
    /\ raised' = TRUE
    /\ Finally(stats)
    /\ UNCHANGED raw_recipes

\* (mutant) the early return outside the try: no finally clause
EarlyReturnNoSummary(st) ==
    /\ pc' = "done"
    /\ stats' = st
    /\ UNCHANGED summaries

\* "if not raw_recipes: return" inside the try
EarlyReturn(st) ==
    /\ pc' = "done"
    /\ Finally(st)

\* fetch_recipes returned: total_fetched is set, an empty result returns early
FetchSucceeded(result) ==
    LET fetched == [stats EXCEPT !.total_fetched = Len(result)]
    IN /\ raw_recipes' = result
       /\ UNCHANGED raised
       /\ IF Len(result) = 0
          THEN EarlyReturn(fetched)
          ELSE /\ pc' = "processing"
               /\ stats' = fetched
               /\ UNCHANGED summaries

\* what run_ingestion does with the outcome of "await self.fetch_recipes(limit)"
AfterFetch(result, fetchRaises) ==
    IF fetchRaises THEN FetchFailed ELSE FetchSucceeded(result)

\* a raise leaves fetch_recipes, which has no except clause: its finally
\* clause closes the session and run_ingestion gets the raise
FetchAborts ==
    /\ fetchRaised' = TRUE
    /\ UNCHANGED closeFailed
    /\ AfterFetch(<< >>, TRUE)

\* the records a sequence of call outcomes answered, in call order
IsOk(o) == o.kind = "ok"

AnsweredRecords(outcomes) ==
    LET oks == SelectSeq(outcomes, IsOk)
    IN [i \in 1..Len(oks) |-> RecordOf(oks[i])]

\* one iteration of the category loop of fetch_recipes: the listing call
\* and one detail call per listed meal
FetchCategory(listing, details) ==
    /\ UNCHANGED <<pureVars, fixVars, extVars, concVars>>
    /\ pc = "fetching"
    /\ catIdx < NumCategories
    /\ ~LimitReached(limit, Len(all_recipes))
    /\ Len(all_recipes) + Len(AnsweredRecords(details)) <= MaxGathered
    /\ LET got == FetchRecipesByCategory(listing, details)
       IN IF got.raised
          THEN /\ FetchAborts
               /\ UNCHANGED <<all_recipes, catIdx>>
          ELSE /\ all_recipes' = all_recipes \o got.value
               /\ catIdx' = catIdx + 1
               /\ UNCHANGED <<pc, raw_recipes, stats, summaries, raised,
                              closeFailed, fetchRaised>>
    /\ obtained' = obtained \o AnsweredRecords(details)
    /\ someOk' = (someOk \/ listing.kind # "fail")
    /\ someFailed' = (someFailed \/ listing.kind = "fail"
                        \/ \E i \in 1..Len(details) : details[i].kind = "fail")
    /\ UNCHANGED <<runs, limit, dry_run, afterCats, randomCalls, idx, recipes,
                   recipes0, attempted, saves>>

\* the end of the category loop (limit met, or every category listed) and
\* strategy 2: the random top-up when the gathered records are short of limit
TopUp(head, tail) ==
    /\ UNCHANGED <<pureVars, fixVars, extVars, concVars>>
    /\ pc = "fetching"
    /\ catIdx = NumCategories \/ LimitReached(limit, Len(all_recipes))
    /\ LET count == RandomCount(limit, Len(all_recipes))
           got == FetchRandomRecipes(count, head, tail)
       IN /\ Len(head) = Min(count, MaxRandomHead)
          /\ Len(all_recipes) + Len(AnsweredRecords(head)) <= MaxGathered
          /\ IF got.raised
             THEN /\ FetchAborts
                  /\ UNCHANGED all_recipes
             ELSE /\ all_recipes' = all_recipes \o got.value
                  /\ pc' = "gathered"
                  /\ UNCHANGED <<raw_recipes, stats, summaries, raised,
                                 closeFailed, fetchRaised>>
          /\ obtained' = obtained \o AnsweredRecords(head)
          /\ someOk' = (someOk
                          \/ \E i \in 1..count : RandomOutcome(head, tail, i).kind # "fail")
          /\ someFailed' = (someFailed
                          \/ \E i \in 1..count : RandomOutcome(head, tail, i).kind = "fail")
          /\ randomCalls' = count
    /\ afterCats' = Len(all_recipes)
    /\ UNCHANGED <<runs, limit, dry_run, catIdx, idx, recipes, recipes0,
                   attempted, saves>>

\* the rest of fetch_recipes: dedup, truncate, and closing the session in
\* its finally clause, which replaces the return by a raise when it fails;
\* then run_ingestion goes on with the outcome
FetchReturn(closeFails) ==
    /\ UNCHANGED <<pureVars, fixVars, extVars, concVars>>
    /\ pc = "gathered"
    /\ closeFailed' = closeFails
    /\ fetchRaised' = closeFails
    /\ AfterFetch(FetchResult(all_recipes, limit), closeFails)
    /\ UNCHANGED <<runs, limit, dry_run, idx, recipes, recipes0, attempted, saves>>
    /\ UNCHANGED gatherVars

\* fetch_recipes as run_ingestion sees it, in one step: the network calls
\* gather some sequence of records, which is deduplicated and truncated,
\* or the fetch raises
Fetch(gathered, closeFails) ==
    /\ UNCHANGED <<pureVars, fixVars, extVars, concVars>>
    /\ pc = "fetching"
    /\ closeFailed' = closeFails
    /\ fetchRaised' = closeFails
    /\ AfterFetch(FetchResult(gathered, limit), closeFails)
    /\ UNCHANGED <<runs, limit, dry_run, idx, recipes, recipes0, attempted, saves>>
    /\ UNCHANGED gatherVars

\* a call of save_recipe by an ingester whose counters are st
CallSaveRecipe(st, id, fault) ==
    LET saved == SaveRecipe(recipes, <<"themealdb", id>>, fault)
    IN /\ stats' = CountOutcome(st, saved.outcome)
       /\ recipes' = saved.rows
       /\ saves' = Remember(saves, [key |-> id, outcome |-> saved.outcome,
                                    rowsBefore |-> RowCount(recipes)])

\* the loop goes on with the next record
Continue ==
    /\ idx' = idx + 1
    /\ UNCHANGED <<pc, summaries, raised>>

\* (mutant) the error of one record is raised again: the run aborts
HandleRecordErrorRaise ==
    /\ pc' = "fatal"
    /\ raised' = TRUE
    /\ Finally([stats EXCEPT !.total_errors = @ + 1])
    /\ UNCHANGED idx

\* "except Exception" inside the loop: the error is counted, then "continue"
HandleRecordError ==
    /\ stats' = [stats EXCEPT !.total_errors = @ + 1]
    /\ Continue

\* one iteration of the processing loop: the "Processing recipe" line,
\* normalize_recipe, then the dry-run preview or save_recipe
ProcessRecord(fault) ==
    /\ UNCHANGED <<pureVars, fixVars, extVars, concVars>>
    /\ pc = "processing"
    /\ idx <= Len(raw_recipes)
    /\ LET raw == raw_recipes[idx]
           normalized == [stats EXCEPT !.total_processed = @ + 1]
       IN /\ attempted' = Append(attempted, raw.idMeal)
          /\ IF NormalizeRaises(raw)
             THEN /\ HandleRecordError
                  /\ UNCHANGED <<recipes, saves>>
             ELSE IF dry_run
             THEN /\ stats' = normalized
                  /\ Continue
                  /\ UNCHANGED <<recipes, saves>>
             ELSE /\ CallSaveRecipe(normalized, Normalize(raw).external_id, fault)
                  /\ Continue
    /\ UNCHANGED <<runs, limit, dry_run, raw_recipes, recipes0, closeFailed, fetchRaised>>
    /\ UNCHANGED gatherVars

\* the loop is over: the finally clause, and run_ingestion returns
FinishRun ==
    /\ UNCHANGED <<pureVars, fixVars, extVars, concVars>>
    /\ pc = "processing"
    /\ idx > Len(raw_recipes)
    /\ pc' = "done"
    /\ Finally(stats)
    /\ UNCHANGED <<runs, limit, dry_run, raw_recipes, idx, recipes, recipes0,
                   attempted, raised, saves, closeFailed, fetchRaised>>
    /\ UNCHANGED gatherVars

----------------------------------------------------------------------------
(* Specifications *)

\* the sequences of records one fetch can gather
Gathered == UNION {[1..n -> RawRecords] : n \in 0..MaxGathered}

\* ingestion runs one after another on a shared store; the network calls of
\* a fetch are one step
Next ==
    \/ \E lim \in Limits, dry \in BOOLEAN : StartRun(lim, dry)
    \/ \E gathered \in Gathered, closeFails \in BOOLEAN : Fetch(gathered, closeFails)
    \/ \E fault \in Faults : ProcessRecord(fault)
    \/ FinishRun

Spec == Init /\ [][Next]_vars

\* the outcomes of the first random calls, one by one
RandomHeads == UNION {[1..n -> CallOutcomes] : n \in 0..MaxRandomHead}

\* the detail calls of one category whose listing has members: an outcome
\* per listed meal
DetailSeqs == UNION {[1..n -> CallOutcomes] : n \in 1..MaxPerCat}

\* the listing those detail calls follow: the record a detail call answers
\* is the record of the listed meal
ListingOf(details) ==
    [kind |-> "ok", meals |-> [i \in 1..Len(details) |-> details[i].idMeal]]

\* one live ingestion run on an empty store, with every network call of the fetch
InitFetch == Init /\ \A k \in Keys : recipes[k] = 0

StartFetchRun(lim) == runs = 0 /\ StartRun(lim, FALSE)

NextFetch ==
    \/ \E lim \in Limits : StartFetchRun(lim)
    \/ \E listing \in {l \in Listings : l.kind # "ok"} : FetchCategory(listing, << >>)
    \/ \E details \in DetailSeqs : FetchCategory(ListingOf(details), details)
    \/ \E head \in RandomHeads, tail \in {o \in CallOutcomes : o.kind # "ok"} :
          TopUp(head, tail)
    \/ \E closeFails \in BOOLEAN : FetchReturn(closeFails)
    \/ \E fault \in Faults : ProcessRecord(fault)
    \/ FinishRun

FetchSpec == InitFetch /\ [][NextFetch]_vars

\* the dedup and truncation on their own: a run on an empty store whose
\* first category answered the gathered records and whose other calls
\* answered none
InitDedup ==
    /\ pc = "gathered"
    /\ runs = 1
    /\ limit \in Limits
    /\ dry_run = FALSE
    /\ all_recipes \in UNION {[1..n -> RawRecords] : n \in 0..MaxDedupLen}
    /\ obtained = all_recipes
    /\ catIdx = IF LimitReached(limit, Len(all_recipes)) THEN 1 ELSE NumCategories
    /\ someOk = TRUE
    /\ someFailed = FALSE
    /\ afterCats = Len(all_recipes)
    /\ randomCalls = RandomCount(limit, Len(all_recipes))
    /\ closeFailed = FALSE
    /\ fetchRaised = FALSE
    /\ raw_recipes = << >>
    /\ idx = 1
    /\ stats = [NewStats EXCEPT !.start_time = "set"]
    /\ recipes = [k \in Keys |-> 0]
    /\ recipes0 = recipes
    /\ attempted = << >>
    /\ summaries = 0
    /\ raised = FALSE
    /\ saves = << >>
    /\ PureIdle
    /\ FixIdle
    /\ ConcIdle
    /\ ExtIdle

NextDedup ==
    \/ \E closeFails \in BOOLEAN : FetchReturn(closeFails)
    \/ \E fault \in Faults : ProcessRecord(fault)
    \/ FinishRun

DedupSpec == InitDedup /\ [][NextDedup]_vars

\* the persistence gateway on its own: one ingester whose save_recipe is
\* called with one normalized record after another
SaveCall(id, fault) ==
    /\ UNCHANGED <<pureVars, fixVars, extVars, concVars>>
    /\ pc = "idle"
    /\ stats.total_saved + stats.total_skipped + stats.total_errors < MaxSaveCalls
    /\ CallSaveRecipe(stats, id, fault)
    /\ UNCHANGED <<pc, runs, limit, dry_run, raw_recipes, idx, recipes0, attempted,
                   summaries, raised, closeFailed, fetchRaised>>
    /\ UNCHANGED gatherVars

NextSave == \E id \in Ids, fault \in Faults : SaveCall(id, fault)

SaveSpec == Init /\ [][NextSave]_vars

----------------------------------------------------------------------------
(* The dietary classifier, in its two copies *)

\* BaseIngester.detect_dietary_restrictions: meat_keywords
meat_keywords ==
    << "beef", "chicken", "pork", "lamb", "turkey", "duck", "goose",
       "rabbit", "venison", "veal", "mutton", "goat", "meat", "steak",
       "ground beef", "oxtail", "ribs", "brisket", "chuck", "sirloin",
       "tenderloin", "flank", "drumstick", "thigh", "breast", "wing", "leg",
       "shoulder", "loin", "bacon", "ham", "sausage", "salami", "pepperoni",
       "prosciutto", "pancetta", "chorizo", "pastrami", "corned beef",
       "hot dog", "bratwurst", "mortadella", "capicola", "bresaola",
       "kielbasa", "fish", "salmon", "tuna", "cod", "halibut", "tilapia",
       "sea bass", "trout", "mackerel", "sardine", "anchovy", "herring",
       "sole", "flounder", "snapper", "shrimp", "crab", "lobster",
       "scallop", "mussel", "clam", "oyster", "squid", "octopus",
       "calamari", "prawns", "crawfish", "crayfish", "chicken breast",
       "chicken thigh", "chicken wing", "whole chicken", "turkey breast",
       "ground turkey", "duck breast", "duck leg", "liver", "kidney",
       "heart", "tongue", "brain", "sweetbread", "tripe", "blood sausage",
       "boudin", "haggis", "chicken stock", "beef stock", "bone broth",
       "chicken broth", "beef broth", "demi-glace", "meat stock",
       "fish stock", "seafood stock" >>

\* BaseIngester.detect_dietary_restrictions: dairy_keywords
dairy_keywords ==
    << "milk", "cheese", "butter", "cream", "yogurt", "yoghurt",
       "whole milk", "skim milk", "2% milk", "1% milk", "buttermilk",
       "goat milk", "sheep milk", "buffalo milk", "condensed milk",
       "evaporated milk", "powdered milk", "dry milk", "milk powder",
       "cheddar", "mozzarella", "parmesan", "parmigiano", "pecorino",
       "ricotta", "cottage cheese", "cream cheese", "feta", "goat cheese",
       "blue cheese", "brie", "camembert", "swiss", "gruyere", "gouda",
       "provolone", "manchego", "asiago", "gorgonzola", "roquefort",
       "mascarpone", "boursin", "queso", "paneer", "halloumi",
       "heavy cream", "whipping cream", "light cream", "half and half",
       "sour cream", "crème fraîche", "whipped cream", "clotted cream",
       "double cream", "single cream", "greek yogurt", "plain yogurt",
       "vanilla yogurt", "frozen yogurt", "kefir", "labneh", "skyr",
       "salted butter", "unsalted butter", "clarified butter", "ghee",
       "cultured butter", "butter substitute", "ice cream", "gelato",
       "sorbet", "frozen custard", "sherbet", "milkshake", "milk shake",
       "casein", "whey", "lactose", "milk solids", "milk protein",
       "sodium caseinate", "calcium caseinate", "lactalbumin",
       "lactoglobulin", "milk fat", "butterfat", "white sauce", "béchamel",
       "alfredo", "carbonara sauce", "cheese sauce", "cream sauce",
       "ranch dressing", "caesar dressing" >>

\* BaseIngester.detect_dietary_restrictions: gluten_keywords
gluten_keywords ==
    << "flour", "wheat", "wheat flour", "all-purpose flour", "bread flour",
       "cake flour", "pastry flour", "self-rising flour", "whole wheat",
       "durum wheat", "semolina", "bulgur", "wheat bran", "wheat germ",
       "spelt", "kamut", "einkorn", "emmer", "farro", "barley", "rye",
       "triticale", "malt", "malted barley", "malt extract", "malt syrup",
       "malt vinegar", "malted milk", "beer", "ale", "lager", "bread",
       "white bread", "whole grain bread", "sourdough", "bagel",
       "english muffin", "baguette", "ciabatta", "focaccia", "pita", "naan",
       "tortilla", "wrap", "roll", "bun", "croissant", "brioche",
       "breadcrumbs", "bread crumbs", "panko", "croutons", "pasta",
       "spaghetti", "linguine", "fettuccine", "penne", "rigatoni",
       "macaroni", "fusilli", "farfalle", "ravioli", "tortellini",
       "gnocchi", "lasagna", "noodles", "egg noodles", "ramen", "udon",
       "soba", "couscous", "orzo", "cake", "cookies", "crackers", "muffins",
       "donuts", "doughnuts", "pastry", "pie crust", "pizza dough",
       "biscuits", "scones", "pretzels", "wafers", "cereal", "granola",
       "muesli", "oats", "oatmeal", "rolled oats", "steel cut oats",
       "barley", "wheat berries", "soy sauce", "tamari", "teriyaki",
       "hoisin sauce", "oyster sauce", "worcestershire", "miso", "seitan",
       "vital wheat gluten", "modified food starch",
       "hydrolyzed wheat protein", "textured vegetable protein", "tvp",
       "breading", "battered", "tempura", "flour tortilla",
       "graham crackers", "matzo", "communion wafer" >>

\* BaseIngester.detect_dietary_restrictions: nut_keywords
nut_keywords ==
    << "almond", "almonds", "brazil nut", "brazil nuts", "cashew",
       "cashews", "hazelnut", "hazelnuts", "macadamia", "macadamias",
       "pecan", "pecans", "pine nut", "pine nuts", "pistachio",
       "pistachios", "walnut", "walnuts", "chestnut", "chestnuts",
       "beech nut", "beech nuts", "hickory nut", "black walnut",
       "english walnut", "peanut", "peanuts", "groundnut", "groundnuts",
       "monkey nut", "almond butter", "peanut butter", "cashew butter",
       "hazelnut butter", "walnut butter", "pecan butter",
       "pistachio butter", "tahini", "sunflower seed butter", "sunbutter",
       "almond oil", "walnut oil", "hazelnut oil", "peanut oil",
       "groundnut oil", "argan oil", "almond flour", "almond meal",
       "hazelnut flour", "walnut flour", "pecan flour", "chestnut flour",
       "coconut flour", "almond milk", "cashew milk", "hazelnut milk",
       "walnut milk", "macadamia milk", "pecan milk", "pistachio milk",
       "coconut", "coconut oil", "coconut milk", "coconut cream",
       "coconut flour", "desiccated coconut", "coconut flakes",
       "coconut butter", "coconut meat", "sesame", "sesame seeds",
       "sesame oil", "sunflower seeds", "pumpkin seeds", "poppy seeds",
       "chia seeds", "flax seeds", "hemp seeds", "marzipan", "nougat",
       "praline", "gianduja", "nutella", "amaretto", "frangelico", "orgeat",
       "natural flavoring", "artificial flavoring", "nut extract",
       "almond extract", "vanilla extract" >>

\* (mutant) a shorter meat list in the fixer's copy
short_meat_keywords == <<"beef", "chicken", "pork", "lamb", "turkey", "fish">>

\* DietaryFlagFixer.detect_dietary_restrictions: meat_keywords
fixer_meat_keywords ==
    << "beef", "chicken", "pork", "lamb", "turkey", "duck", "goose",
       "rabbit", "venison", "veal", "mutton", "goat", "meat", "steak",
       "ground beef", "oxtail", "ribs", "brisket", "chuck", "sirloin",
       "tenderloin", "flank", "drumstick", "thigh", "breast", "wing", "leg",
       "shoulder", "loin", "bacon", "ham", "sausage", "salami", "pepperoni",
       "prosciutto", "pancetta", "chorizo", "pastrami", "corned beef",
       "hot dog", "bratwurst", "mortadella", "capicola", "bresaola",
       "kielbasa", "fish", "salmon", "tuna", "cod", "halibut", "tilapia",
       "sea bass", "trout", "mackerel", "sardine", "anchovy", "herring",
       "sole", "flounder", "snapper", "shrimp", "crab", "lobster",
       "scallop", "mussel", "clam", "oyster", "squid", "octopus",
       "calamari", "prawns", "crawfish", "crayfish", "chicken breast",
       "chicken thigh", "chicken wing", "whole chicken", "turkey breast",
       "ground turkey", "duck breast", "duck leg", "liver", "kidney",
       "heart", "tongue", "brain", "sweetbread", "tripe", "blood sausage",
       "boudin", "haggis", "chicken stock", "beef stock", "bone broth",
       "chicken broth", "beef broth", "demi-glace", "meat stock",
       "fish stock", "seafood stock" >>

\* DietaryFlagFixer.detect_dietary_restrictions: dairy_keywords
fixer_dairy_keywords ==
    << "milk", "cheese", "butter", "cream", "yogurt", "yoghurt",
       "whole milk", "skim milk", "2% milk", "1% milk", "buttermilk",
       "goat milk", "sheep milk", "buffalo milk", "condensed milk",
       "evaporated milk", "powdered milk", "dry milk", "milk powder",
       "cheddar", "mozzarella", "parmesan", "parmigiano", "pecorino",
       "ricotta", "cottage cheese", "cream cheese", "feta", "goat cheese",
       "blue cheese", "brie", "camembert", "swiss", "gruyere", "gouda",
       "provolone", "manchego", "asiago", "gorgonzola", "roquefort",
       "mascarpone", "boursin", "queso", "paneer", "halloumi",
       "heavy cream", "whipping cream", "light cream", "half and half",
       "sour cream", "crème fraîche", "whipped cream", "clotted cream",
       "double cream", "single cream", "greek yogurt", "plain yogurt",
       "vanilla yogurt", "frozen yogurt", "kefir", "labneh", "skyr",
       "salted butter", "unsalted butter", "clarified butter", "ghee",
       "cultured butter", "butter substitute", "ice cream", "gelato",
       "sorbet", "frozen custard", "sherbet", "milkshake", "milk shake",
       "casein", "whey", "lactose", "milk solids", "milk protein",
       "sodium caseinate", "calcium caseinate", "lactalbumin",
       "lactoglobulin", "milk fat", "butterfat", "white sauce", "béchamel",
       "alfredo", "carbonara sauce", "cheese sauce", "cream sauce",
       "ranch dressing", "caesar dressing" >>

\* DietaryFlagFixer.detect_dietary_restrictions: gluten_keywords
fixer_gluten_keywords ==
    << "flour", "wheat", "wheat flour", "all-purpose flour", "bread flour",
       "cake flour", "pastry flour", "self-rising flour", "whole wheat",
       "durum wheat", "semolina", "bulgur", "wheat bran", "wheat germ",
       "spelt", "kamut", "einkorn", "emmer", "farro", "barley", "rye",
       "triticale", "malt", "malted barley", "malt extract", "malt syrup",
       "malt vinegar", "malted milk", "beer", "ale", "lager", "bread",
       "white bread", "whole grain bread", "sourdough", "bagel",
       "english muffin", "baguette", "ciabatta", "focaccia", "pita", "naan",
       "tortilla", "wrap", "roll", "bun", "croissant", "brioche",
       "breadcrumbs", "bread crumbs", "panko", "croutons", "pasta",
       "spaghetti", "linguine", "fettuccine", "penne", "rigatoni",
       "macaroni", "fusilli", "farfalle", "ravioli", "tortellini",
       "gnocchi", "lasagna", "noodles", "egg noodles", "ramen", "udon",
       "soba", "couscous", "orzo", "cake", "cookies", "crackers", "muffins",
       "donuts", "doughnuts", "pastry", "pie crust", "pizza dough",
       "biscuits", "scones", "pretzels", "wafers", "cereal", "granola",
       "muesli", "oats", "oatmeal", "rolled oats", "steel cut oats",
       "barley", "wheat berries", "soy sauce", "tamari", "teriyaki",
       "hoisin sauce", "oyster sauce", "worcestershire", "miso", "seitan",
       "vital wheat gluten", "modified food starch",
       "hydrolyzed wheat protein", "textured vegetable protein", "tvp",
       "breading", "battered", "tempura", "flour tortilla",
       "graham crackers", "matzo", "communion wafer" >>

\* DietaryFlagFixer.detect_dietary_restrictions: nut_keywords
fixer_nut_keywords ==
    << "almond", "almonds", "brazil nut", "brazil nuts", "cashew",
       "cashews", "hazelnut", "hazelnuts", "macadamia", "macadamias",
       "pecan", "pecans", "pine nut", "pine nuts", "pistachio",
       "pistachios", "walnut", "walnuts", "chestnut", "chestnuts",
       "beech nut", "beech nuts", "hickory nut", "black walnut",
       "english walnut", "peanut", "peanuts", "groundnut", "groundnuts",
       "monkey nut", "almond butter", "peanut butter", "cashew butter",
       "hazelnut butter", "walnut butter", "pecan butter",
       "pistachio butter", "tahini", "sunflower seed butter", "sunbutter",
       "almond oil", "walnut oil", "hazelnut oil", "peanut oil",
       "groundnut oil", "argan oil", "almond flour", "almond meal",
       "hazelnut flour", "walnut flour", "pecan flour", "chestnut flour",
       "coconut flour", "almond milk", "cashew milk", "hazelnut milk",
       "walnut milk", "macadamia milk", "pecan milk", "pistachio milk",
       "coconut", "coconut oil", "coconut milk", "coconut cream",
       "coconut flour", "desiccated coconut", "coconut flakes",
       "coconut butter", "coconut meat", "sesame", "sesame seeds",
       "sesame oil", "sunflower seeds", "pumpkin seeds", "poppy seeds",
       "chia seeds", "flax seeds", "hemp seeds", "marzipan", "nougat",
       "praline", "gianduja", "nutella", "amaretto", "frangelico", "orgeat",
       "natural flavoring", "artificial flavoring", "nut extract",
       "almond extract", "vanilla extract" >>

\* str.lower() on one character
LowerChar(c) ==
    CASE c = "A" -> "a" []
         c = "B" -> "b" []
         c = "C" -> "c" []
         c = "D" -> "d" []
         c = "E" -> "e" []
         c = "F" -> "f" []
         c = "G" -> "g" []
         c = "H" -> "h" []
         c = "I" -> "i" []
         c = "J" -> "j" []
         c = "K" -> "k" []
         c = "L" -> "l" []
         c = "M" -> "m" []
         c = "N" -> "n" []
         c = "O" -> "o" []
         c = "P" -> "p" []
         c = "Q" -> "q" []
         c = "R" -> "r" []
         c = "S" -> "s" []
         c = "T" -> "t" []
         c = "U" -> "u" []
         c = "V" -> "v" []
         c = "W" -> "w" []
         c = "X" -> "x" []
         c = "Y" -> "y" []
         c = "Z" -> "z" []
         OTHER -> c

\* str.lower()
RECURSIVE Lower(_)
Lower(s) ==
    IF Len(s) = 0 THEN ""
    ELSE LowerChar(SubSeq(s, 1, 1)) \o Lower(SubSeq(s, 2, Len(s)))

\* " ".join([ingredient.get("name", "").lower() for ingredient in ingredients])
RECURSIVE JoinLower(_, _)
JoinLower(ings, i) ==
    IF i > Len(ings) THEN ""
    ELSE IF i = Len(ings) THEN Lower(ings[i].name)
    ELSE Lower(ings[i].name) \o " " \o JoinLower(ings, i + 1)

\* (mutant) only the first ingredient name makes the text
IngredientTextFirst(ings) == IF Len(ings) = 0 THEN "" ELSE Lower(ings[1].name)

IngredientText(ings) == JoinLower(ings, 1)

\* (mutant) a keyword counts only as a whole ingredient name
KeywordIsName(keyword, text) ==
    \E i \in 1..(Len(text) - Len(keyword) + 1) :
        /\ SubSeq(text, i, i + Len(keyword) - 1) = keyword
        /\ i = 1 \/ SubSeq(text, i - 1, i - 1) = " "
        /\ i + Len(keyword) - 1 = Len(text) \/ SubSeq(text, i + Len(keyword), i + Len(keyword)) = " "

\* "keyword in ingredient_text": the keyword is a substring of the text
KeywordIn(keyword, text) ==
    \E i \in 1..(Len(text) - Len(keyword) + 1) :
        SubSeq(text, i, i + Len(keyword) - 1) = keyword

\* any(keyword in ingredient_text for keyword in keywords)
AnyKeyword(text, keywords) ==
    \E j \in 1..Len(keywords) : KeywordIn(keywords[j], text)

\* (mutant) the classifier with is_vegan derived from dairy alone
DetectVeganByDairy(ings) ==
    LET ingredient_text == IngredientText(ings)
        has_meat == AnyKeyword(ingredient_text, meat_keywords)
        has_dairy == AnyKeyword(ingredient_text, dairy_keywords)
        has_gluten == AnyKeyword(ingredient_text, gluten_keywords)
        has_nuts == AnyKeyword(ingredient_text, nut_keywords)
    IN [is_vegetarian |-> ~has_meat,
        is_vegan |-> ~has_dairy,
        is_gluten_free |-> ~has_gluten,
        is_dairy_free |-> ~has_dairy,
        is_nut_free |-> ~has_nuts,
        is_low_carb |-> FALSE,
        is_keto |-> FALSE,
        is_paleo |-> ~has_dairy /\ ~has_gluten]

\* (mutant) the classifier with is_paleo derived from gluten alone
DetectPaleoByGluten(ings) ==
    LET ingredient_text == IngredientText(ings)
        has_meat == AnyKeyword(ingredient_text, meat_keywords)
        has_dairy == AnyKeyword(ingredient_text, dairy_keywords)
        has_gluten == AnyKeyword(ingredient_text, gluten_keywords)
        has_nuts == AnyKeyword(ingredient_text, nut_keywords)
    IN [is_vegetarian |-> ~has_meat,
        is_vegan |-> ~has_meat /\ ~has_dairy,
        is_gluten_free |-> ~has_gluten,
        is_dairy_free |-> ~has_dairy,
        is_nut_free |-> ~has_nuts,
        is_low_carb |-> FALSE,
        is_keto |-> FALSE,
        is_paleo |-> ~has_gluten]

\* BaseIngester.detect_dietary_restrictions
DetectDietaryRestrictions(ings) ==
    LET ingredient_text == IngredientText(ings)
        has_meat == AnyKeyword(ingredient_text, meat_keywords)
        has_dairy == AnyKeyword(ingredient_text, dairy_keywords)
        has_gluten == AnyKeyword(ingredient_text, gluten_keywords)
        has_nuts == AnyKeyword(ingredient_text, nut_keywords)
    IN [is_vegetarian |-> ~has_meat,
        is_vegan |-> ~has_meat /\ ~has_dairy,
        is_gluten_free |-> ~has_gluten,
        is_dairy_free |-> ~has_dairy,
        is_nut_free |-> ~has_nuts,
        is_low_carb |-> FALSE,
        is_keto |-> FALSE,
        is_paleo |-> ~has_dairy /\ ~has_gluten]

\* DietaryFlagFixer.detect_dietary_restrictions
FixerDetectDietaryRestrictions(ings) ==
    LET ingredient_text == IngredientText(ings)
        has_meat == AnyKeyword(ingredient_text, fixer_meat_keywords)
        has_dairy == AnyKeyword(ingredient_text, fixer_dairy_keywords)
        has_gluten == AnyKeyword(ingredient_text, fixer_gluten_keywords)
        has_nuts == AnyKeyword(ingredient_text, fixer_nut_keywords)
    IN [is_vegetarian |-> ~has_meat,
        is_vegan |-> ~has_meat /\ ~has_dairy,
        is_gluten_free |-> ~has_gluten,
        is_dairy_free |-> ~has_dairy,
        is_nut_free |-> ~has_nuts,
        is_low_carb |-> FALSE,
        is_keto |-> FALSE,
        is_paleo |-> ~has_dairy /\ ~has_gluten]

----------------------------------------------------------------------------
(* The field estimator *)

Max(a, b) == IF a >= b THEN a ELSE b

CharAt(s, i) == SubSeq(s, i, i)

\* \d of the regular expression
IsDigit(c) == c \in {"0", "1", "2", "3", "4", "5", "6", "7", "8", "9"}

\* \s of the regular expression
IsSpace(c) == c \in {" ", "\n", "\t"}

DigitValue(c) ==
    CASE c = "0" -> 0 [] c = "1" -> 1 [] c = "2" -> 2 [] c = "3" -> 3 []
         c = "4" -> 4 [] c = "5" -> 5 [] c = "6" -> 6 [] c = "7" -> 7 []
         c = "8" -> 8 [] c = "9" -> 9

\* the first position after the digits that start at i (\d+ is greedy)
RECURSIVE DigitsEnd(_, _)
DigitsEnd(s, i) ==
    IF i <= Len(s) /\ IsDigit(CharAt(s, i)) THEN DigitsEnd(s, i + 1) ELSE i

\* the first position after the white space that starts at i (\s*)
RECURSIVE SpacesEnd(_, _)
SpacesEnd(s, i) ==
    IF i <= Len(s) /\ IsSpace(CharAt(s, i)) THEN SpacesEnd(s, i + 1) ELSE i

\* int(num) for the digits at positions i..j
RECURSIVE ParseInt(_, _, _, _)
ParseInt(s, i, j, acc) ==
    IF i > j THEN acc
    ELSE ParseInt(s, i + 1, j, 10 * acc + DigitValue(CharAt(s, i)))

\* the word w stands in s at position i
StartsAt(s, i, w) ==
    i + Len(w) - 1 <= Len(s) /\ SubSeq(s, i, i + Len(w) - 1) = w

\* re.findall(r'(\d+)\s*(minute|hour)', instruction_text), scanning from i
RECURSIVE TimeMatches(_, _)
TimeMatches(text, i) ==
    IF i > Len(text) THEN << >>
    ELSE IF ~IsDigit(CharAt(text, i)) THEN TimeMatches(text, i + 1)
    ELSE LET d == DigitsEnd(text, i)
             w == SpacesEnd(text, d)
             num == ParseInt(text, i, d - 1, 0)
         IN IF StartsAt(text, w, "minute")
            THEN <<[num |-> num, unit |-> "minute"]>> \o TimeMatches(text, w + 6)
            ELSE IF StartsAt(text, w, "hour")
            THEN <<[num |-> num, unit |-> "hour"]>> \o TimeMatches(text, w + 4)
            ELSE TimeMatches(text, i + 1)

\* sum(int(num) * (60 if unit.startswith('hour') else 1) for num, unit in time_matches)
RECURSIVE TotalMentionedTime(_, _)
TotalMentionedTime(time_matches, i) ==
    IF i > Len(time_matches) THEN 0
    ELSE time_matches[i].num * (IF time_matches[i].unit = "hour" THEN 60 ELSE 1)
         + TotalMentionedTime(time_matches, i + 1)

\* (mutant) the quick adjustment of the cook time with no floor
QuickCookNoFloor(cook_time) == cook_time - 10

\* cook_time = max(10, cook_time - 10)
QuickCook(cook_time) == Max(10, cook_time - 10)

\* BaseIngester.estimate_cooking_times
EstimateCookingTimes(instr, n) ==
    LET instruction_text == Lower(instr)
        quick == AnyKeyword(instruction_text, <<"quick", "fast", "minutes">>)
        prep1 == Max(5, n * 2)
                 + (IF AnyKeyword(instruction_text, <<"marinate", "chill", "refrigerate">>)
                    THEN 30 ELSE 0)
        cook2 == 15
                 + (IF AnyKeyword(instruction_text, <<"bake", "roast", "oven">>)
                    THEN 20 ELSE 0)
                 + (IF AnyKeyword(instruction_text, <<"simmer", "slow", "braise">>)
                    THEN 30 ELSE 0)
        prep_time == IF quick THEN Max(5, prep1 - 5) ELSE prep1
        cook3 == IF quick THEN QuickCook(cook2) ELSE cook2
        time_matches == TimeMatches(instruction_text, 1)
        cook_time == IF Len(time_matches) > 0
                     THEN Max(cook3, TotalMentionedTime(time_matches, 1))
                     ELSE cook3
    IN [prep_time_minutes |-> Min(prep_time, 60),
        cook_time_minutes |-> Min(cook_time, 180),
        total_time_minutes |-> Min(prep_time + cook_time, 240)]

\* the phrases instruction texts are built from
Phrases ==
    {"Bake", "simmer", "chill", "quick", "stir", "45 minutes", "1 minute",
     "3 hours", "200minute"}

RECURSIVE JoinPhrases(_, _)
JoinPhrases(ps, i) ==
    IF i > Len(ps) THEN ""
    ELSE IF i = Len(ps) THEN ps[i]
    ELSE ps[i] \o " " \o JoinPhrases(ps, i + 1)

\* the instruction texts of up to MaxPhrases phrases
InstructionTexts ==
    {JoinPhrases(ps, 1) : ps \in UNION {[1..n -> Phrases] : n \in 0..MaxPhrases}}

\* the ingredient counts handed to the estimator
IngredientCounts == (0..MaxSmallCount) \cup {20, 30, 31, 100}

InitTimes ==
    /\ IngestIdle
    /\ \A k \in Keys : recipes[k] = 0
    /\ FixIdle
    /\ ConcIdle
    /\ ExtIdle
    /\ ingredients = << >>
    /\ dietary_flags = << >>
    /\ fixer_flags = << >>
    /\ instructions \in InstructionTexts
    /\ num_ingredients \in IngredientCounts
    /\ time_estimates = << >>

\* a call of estimate_cooking_times(instructions, num_ingredients)
CallEstimateCookingTimes ==
    /\ time_estimates = << >>
    /\ time_estimates' = <<EstimateCookingTimes(instructions, num_ingredients)>>
    /\ UNCHANGED <<concVars, extVars, ingestVars, fixVars, ingredients, dietary_flags, fixer_flags,
                   instructions, num_ingredients>>

NextTimes == CallEstimateCookingTimes

TimesSpec == InitTimes /\ [][NextTimes]_vars

----------------------------------------------------------------------------
(* The classifier on ingredient lists, and the row an ingestion inserts *)

\* ingredient names as _extract_ingredients yields them
IngredientNames ==
    {"tofu", "soy sauce", "rice", "Chicken Stock", "butter", "graham cracker",
     "peanut oil"}

\* the ingredient lists of up to MaxIngredients ingredients
IngredientLists ==
    UNION {[1..n -> [name : IngredientNames]] : n \in 0..MaxIngredients}

\* the columns of a recipes row that the model follows, as normalize_recipe
\* fills them for a meal with these ingredients and save_recipe inserts them
NormalizedRow(id, name, ings, flags) ==
    [external_id |-> id,
     name |-> name,
     ingredients_json |-> ings,
     total_time_minutes |-> EstimateCookingTimes("", Len(ings)).total_time_minutes,
     tags |-> << >>,
     updated_at |-> 0,
     is_vegetarian |-> flags.is_vegetarian,
     is_vegan |-> flags.is_vegan,
     is_gluten_free |-> flags.is_gluten_free,
     is_dairy_free |-> flags.is_dairy_free,
     is_nut_free |-> flags.is_nut_free,
     is_low_carb |-> flags.is_low_carb,
     is_keto |-> flags.is_keto,
     is_paleo |-> flags.is_paleo]

InitClassify ==
    /\ IngestIdle
    /\ \A k \in Keys : recipes[k] = 0
    /\ FixIdle
    /\ ConcIdle
    /\ ExtIdle
    /\ ingredients \in IngredientLists
    /\ dietary_flags = << >>
    /\ fixer_flags = << >>
    /\ instructions = ""
    /\ num_ingredients = Len(ingredients)
    /\ time_estimates = << >>

\* normalize_recipe calls self.detect_dietary_restrictions(ingredients)
CallDetect ==
    /\ dietary_flags = << >>
    /\ dietary_flags' = <<DetectDietaryRestrictions(ingredients)>>
    /\ UNCHANGED <<concVars, extVars, ingestVars, fixVars, ingredients, fixer_flags, instructions,
                   num_ingredients, time_estimates>>

\* analyze_single_recipe calls self.detect_dietary_restrictions(ingredients_json);
\* the two copies are pure, so the calls are taken one after the other
CallFixerDetect ==
    /\ dietary_flags # << >>
    /\ fixer_flags = << >>
    /\ fixer_flags' = <<FixerDetectDietaryRestrictions(ingredients)>>
    /\ UNCHANGED <<concVars, extVars, ingestVars, fixVars, ingredients, dietary_flags, instructions,
                   num_ingredients, time_estimates>>

\* save_recipe inserts the normalized recipe: Recipe(**recipe_data)
SaveClassified ==
    /\ dietary_flags # << >>
    /\ fixer_flags # << >>
    /\ table = << >>
    /\ table' = <<NormalizedRow(1, "Unknown Recipe", ingredients, dietary_flags[1])>>
    /\ UNCHANGED <<concVars, extVars, ingestVars, pureVars, table0, fix_pc, recipe_id,
                   restriction_type, fix_dry_run, recipes_to_check, fix_idx,
                   changes, fixes_made, total_recipes_changed, fix_summaries>>

NextClassify ==
    \/ CallDetect
    \/ CallFixerDetect
    \/ SaveClassified

ClassifySpec == InitClassify /\ [][NextClassify]_vars

\* ingredient names some of which make a keyword only side by side
OrderNames ==
    {"Soy", "Sauce", "Pine", "Nut", "rice", "Butter", "Egg", "Oil"}

\* the ingredient lists of up to MaxOrderLen of these names
OrderLists ==
    UNION {[1..n -> [name : OrderNames]] : n \in 0..MaxOrderLen}

\* the classifier of the ingester on one of these lists
InitOrder ==
    /\ IngestIdle
    /\ \A k \in Keys : recipes[k] = 0
    /\ FixIdle
    /\ ConcIdle
    /\ ExtIdle
    /\ ingredients \in OrderLists
    /\ dietary_flags = << >>
    /\ fixer_flags = << >>
    /\ instructions = ""
    /\ num_ingredients = Len(ingredients)
    /\ time_estimates = << >>

NextOrder == CallDetect

OrderSpec == InitOrder /\ [][NextOrder]_vars

----------------------------------------------------------------------------
(* The reclassification tool *)

\* the keys of corrected_flags, in the order of the returned dict
FlagOrder ==
    <<"is_vegetarian", "is_vegan", "is_gluten_free", "is_dairy_free",
      "is_nut_free", "is_low_carb", "is_keto", "is_paleo">>

\* the keys of current_flags in analyze_single_recipe
CurrentFlagNames ==
    {"is_vegetarian", "is_vegan", "is_gluten_free", "is_dairy_free", "is_nut_free"}

\* a Python bool as the diff shows it
PyBool(b) == IF b THEN "True" ELSE "False"

\* current_flags.get(flag_name): None for a flag current_flags does not hold
CurrentValue(row, flag_name) ==
    IF flag_name \in CurrentFlagNames THEN PyBool(row[flag_name]) ELSE "None"

\* the loop of analyze_single_recipe over corrected_flags.items()
RECURSIVE CompareFlags(_, _, _, _)
CompareFlags(row, corrected_flags, i, acc) ==
    IF i > Len(FlagOrder) THEN acc
    ELSE LET flag_name == FlagOrder[i]
             current_value == CurrentValue(row, flag_name)
             new_value == corrected_flags[flag_name]
         IN IF current_value # PyBool(new_value)
            THEN CompareFlags(row, corrected_flags, i + 1,
                     Append(acc, [flag |-> flag_name, old |-> current_value,
                                  new |-> new_value]))
            ELSE CompareFlags(row, corrected_flags, i + 1, acc)

\* DietaryFlagFixer.analyze_single_recipe: the changes, in dict order
AnalyzeSingleRecipe(row) ==
    IF row.ingredients_json = << >> THEN << >>
    ELSE CompareFlags(row, FixerDetectDietaryRestrictions(row.ingredients_json),
                      1, << >>)

\* flag_name.replace("is_", "")
RestrictionKey(flag_name) == SubSeq(flag_name, 4, Len(flag_name))

\* (mutant) the ledger taking an example while there are at most 3
TrackChangeLoose(made, name, change) ==
    LET restriction_key == SubSeq(change.flag, 4, Len(change.flag))
    IN IF restriction_key \in DOMAIN made
       THEN [made EXCEPT ![restriction_key] =
               [fixed |-> @.fixed + 1,
                examples |-> IF Len(@.examples) <= 3
                             THEN Append(@.examples,
                                      [name |-> name, old |-> change.old,
                                       new |-> change.new])
                             ELSE @.examples]]
       ELSE made

\* the ledger after one change of a record: fixed += 1, an example while
\* there are fewer than 3
TrackChange(made, name, change) ==
    LET restriction_key == RestrictionKey(change.flag)
    IN IF restriction_key \in DOMAIN made
       THEN [made EXCEPT ![restriction_key] =
               [fixed |-> @.fixed + 1,
                examples |-> IF Len(@.examples) < 3
                             THEN Append(@.examples,
                                      [name |-> name, old |-> change.old,
                                       new |-> change.new])
                             ELSE @.examples]]
       ELSE made

\* the loop of fix_recipe_flags over changes.items(): the ledger after it
RECURSIVE TrackChanges(_, _, _, _)
TrackChanges(made, name, diff, i) ==
    IF i > Len(diff) THEN made
    ELSE TrackChanges(TrackChange(made, name, diff[i]), name, diff, i + 1)

\* setattr(db_recipe, flag_name, change["new"]) for every change
RECURSIVE ApplyChanges(_, _, _)
ApplyChanges(row, diff, i) ==
    IF i > Len(diff) THEN row
    ELSE ApplyChanges([row EXCEPT ![diff[i].flag] = diff[i].new], diff, i + 1)

\* (mutant) the update without the stamp
UpdatedRowNoStamp(row, diff) == ApplyChanges(row, diff, 1)

\* the update of fix_recipe_flags: the flags set, updated_at stamped
UpdatedRow(row, diff) == [ApplyChanges(row, diff, 1) EXCEPT !.updated_at = 1]

\* the filter of find_problematic_recipes for a restriction type
MatchesRestriction(row, rtype) ==
    CASE rtype = "vegan" -> row.is_vegan
      [] rtype = "vegetarian" -> row.is_vegetarian
      [] rtype = "gluten_free" -> row.is_gluten_free
      [] rtype = "dairy_free" -> row.is_dairy_free
      [] rtype = "nut_free" -> row.is_nut_free
      [] OTHER -> TRUE

\* a loaded Recipe object: the row with its id
Loaded(rows, i) == [id |-> i, row |-> rows[i]]

\* find_problematic_recipes: the rows with ingredients_json that match, by id
RECURSIVE FindProblematicRecipes(_, _, _)
FindProblematicRecipes(rows, rtype, i) ==
    IF i > Len(rows) THEN << >>
    ELSE IF MatchesRestriction(rows[i], rtype)
         THEN <<Loaded(rows, i)>> \o FindProblematicRecipes(rows, rtype, i + 1)
         ELSE FindProblematicRecipes(rows, rtype, i + 1)

\* the restriction types run_analysis is called with
RestrictionTypes == {"None", "vegan", "vegetarian"}

\* the names of the stored recipes, by id
RecipeNames ==
    <<"Recipe A", "Recipe B", "Recipe C", "Recipe D", "Recipe E", "Recipe F">>

\* what a stored row can hold: its ingredients and how its flags stand to
\* the classifier's ("correct", "set": every flag set, "unset": every flag
\* at the column default)
StoredKinds ==
    {[ings |-> << >>, flags |-> "unset"],
     [ings |-> <<[name |-> "Chicken Stock"]>>, flags |-> "set"],
     [ings |-> <<[name |-> "butter"]>>, flags |-> "correct"]}

\* the flags of a stored row of a kind
StoredFlags(kind) ==
    LET correct == DetectDietaryRestrictions(kind.ings)
    IN CASE kind.flags = "correct" -> correct
         [] kind.flags = "set" -> [f \in DOMAIN correct |-> TRUE]
         [] OTHER -> [f \in DOMAIN correct |-> FALSE]

\* the stored row with id i of a kind
StoredRow(i, kind) == NormalizedRow(i, RecipeNames[i], kind.ings, StoredFlags(kind))

\* the tables of up to MaxRows rows
Tables ==
    {[i \in DOMAIN kinds |-> StoredRow(i, kinds[i])] :
        kinds \in UNION {[1..n -> StoredKinds] : n \in 0..MaxRows}}

InitFix ==
    /\ IngestIdle
    /\ ConcIdle
    /\ ExtIdle
    /\ \A k \in Keys : recipes[k] = 0
    /\ PureIdle
    /\ table \in Tables
    /\ table0 = table
    /\ fix_pc = "idle"
    /\ recipe_id = 0
    /\ restriction_type = "None"
    /\ fix_dry_run = FALSE
    /\ recipes_to_check = << >>
    /\ fix_idx = 1
    /\ changes = << >>
    /\ fixes_made = NewFixesMade
    /\ total_recipes_changed = 0
    /\ fix_summaries = 0

\* run_analysis(recipe_id, restriction_type, dry_run) up to the loop: the
\* records to check are loaded; an unknown recipe_id ends the call
StartAnalysis(rid, rtype, dry) ==
    /\ fix_pc = "idle"
    /\ recipe_id' = rid
    /\ restriction_type' = rtype
    /\ fix_dry_run' = dry
    /\ IF rid # 0
       THEN IF rid \in 1..Len(table)
            THEN /\ recipes_to_check' = <<Loaded(table, rid)>>
                 /\ fix_pc' = "scanning"
            ELSE /\ recipes_to_check' = << >>
                 /\ fix_pc' = "done"
       ELSE /\ recipes_to_check' = FindProblematicRecipes(table, rtype, 1)
            /\ fix_pc' = "scanning"
    /\ UNCHANGED <<concVars, extVars, ingestVars, pureVars, table, table0, fix_idx, changes,
                   fixes_made, total_recipes_changed, fix_summaries>>

\* (mutant) fix_recipe_flags writing in a dry run too
WritesOf(dry, commitFails) == ~commitFails

\* fix_recipe_flags reaches a committed update
Writes(dry, commitFails) == ~dry /\ ~commitFails

\* one iteration of the loop of run_analysis: fix_recipe_flags(recipe, dry_run)
FixRecipeFlags(commitFails) ==
    /\ fix_pc = "scanning"
    /\ fix_idx <= Len(recipes_to_check)
    /\ LET recipe == recipes_to_check[fix_idx]
           diff == AnalyzeSingleRecipe(recipe.row)
       IN /\ changes' = diff
          /\ fixes_made' = TrackChanges(fixes_made, recipe.row.name, diff, 1)
          /\ table' = IF diff # << >> /\ Writes(fix_dry_run, commitFails)
                      THEN [table EXCEPT ![recipe.id] = UpdatedRow(@, diff)]
                      ELSE table
          /\ total_recipes_changed' =
                IF diff # << >> /\ (fix_dry_run \/ ~commitFails)
                THEN total_recipes_changed + 1
                ELSE total_recipes_changed
    /\ fix_idx' = fix_idx + 1
    /\ UNCHANGED <<concVars, extVars, ingestVars, pureVars, table0, fix_pc, recipe_id,
                   restriction_type, fix_dry_run, recipes_to_check, fix_summaries>>

\* the loop is over: print_fix_summary
FinishAnalysis ==
    /\ fix_pc = "scanning"
    /\ fix_idx > Len(recipes_to_check)
    /\ fix_pc' = "done"
    /\ fix_summaries' = fix_summaries + 1
    /\ UNCHANGED <<concVars, extVars, ingestVars, pureVars, table, table0, recipe_id,
                   restriction_type, fix_dry_run, recipes_to_check, fix_idx,
                   changes, fixes_made, total_recipes_changed>>

NextFix ==
    \/ \E rid \in 0..(Len(table) + 1), rtype \in RestrictionTypes, dry \in BOOLEAN :
          StartAnalysis(rid, rtype, dry)
    \/ \E commitFails \in BOOLEAN : FixRecipeFlags(commitFails)
    \/ FinishAnalysis

FixSpec == InitFix /\ [][NextFix]_vars

----------------------------------------------------------------------------
(* TheMealDBIngester: the normalizer on a whole raw record *)

\* a field of a raw record as dict.get sees it: the key is missing
\* ("absent"), its value is JSON null, or its value is the string s
Absent == [kind |-> "absent", s |-> ""]

None == [kind |-> "null", s |-> ""]

Str(s) == [kind |-> "str", s |-> s]

\* raw_recipe.get(key, default): the default only when the key is missing
Get(field, default) == IF field.kind = "absent" THEN default ELSE field

\* the truth value of a string or None
Truthy(v) == v.kind = "str" /\ v.s # ""

\* str.strip(): leading and trailing whitespace removed
RECURSIVE StripLeft(_)
StripLeft(s) ==
    IF Len(s) > 0 /\ IsSpace(CharAt(s, 1))
    THEN StripLeft(SubSeq(s, 2, Len(s)))
    ELSE s

RECURSIVE StripRight(_)
StripRight(s) ==
    IF Len(s) > 0 /\ IsSpace(CharAt(s, Len(s)))
    THEN StripRight(SubSeq(s, 1, Len(s) - 1))
    ELSE s

Strip(s) == StripRight(StripLeft(s))

\* range(1, 21): the strIngredientN / strMeasureN slots of a raw record
NumSlots == 20

\* the slots of a raw record: the first ones one by one, the later ones alike
SlotOf(raw, i) == IF i <= Len(raw.head) THEN raw.head[i] ELSE raw.tail

\* the loop of _extract_ingredients: .strip() on None raises AttributeError,
\* for the name first and then for the measure, whatever the name is
RECURSIVE ExtractLoop(_, _, _)
ExtractLoop(raw, i, acc) ==
    IF i > NumSlots THEN Returned(acc)
    ELSE LET name == Get(SlotOf(raw, i).name, Str(""))
             measure == Get(SlotOf(raw, i).measure, Str(""))
         IN IF name.kind # "str" \/ measure.kind # "str" THEN Raise
            ELSE IF Strip(name.s) # ""
            THEN ExtractLoop(raw, i + 1,
                     Append(acc, [name |-> Strip(name.s),
                                  amount |-> IF Strip(measure.s) # ""
                                             THEN Strip(measure.s)
                                             ELSE "to taste"]))
            ELSE ExtractLoop(raw, i + 1, acc)

\* TheMealDBIngester._extract_ingredients
ExtractIngredients(raw) == ExtractLoop(raw, 1, << >>)

\* str.replace(old, new): the occurrences from left to right, scanning from i
RECURSIVE Replace(_, _, _, _)
Replace(s, old, new, i) ==
    IF i > Len(s) THEN ""
    ELSE IF StartsAt(s, i, old) THEN new \o Replace(s, old, new, i + Len(old))
    ELSE CharAt(s, i) \o Replace(s, old, new, i + 1)

\* str.split(sep) for a separator of one character: the pieces, scanning
\* from i with the piece that began at start
RECURSIVE Split(_, _, _, _)
Split(s, sep, start, i) ==
    IF i > Len(s) THEN <<SubSeq(s, start, Len(s))>>
    ELSE IF CharAt(s, i) = sep
    THEN <<SubSeq(s, start, i - 1)>> \o Split(s, sep, i + 1, i + 1)
    ELSE Split(s, sep, start, i + 1)

\* str(i) for a natural number
RECURSIVE ToStr(_)
ToStr(i) ==
    IF i < 10 THEN SubSeq("0123456789", i + 1, i + 1)
    ELSE ToStr(i \div 10) \o SubSeq("0123456789", (i % 10) + 1, (i % 10) + 1)

\* [step.strip() for step in pieces if step.strip()]
RECURSIVE StrippedPieces(_, _)
StrippedPieces(pieces, i) ==
    IF i > Len(pieces) THEN << >>
    ELSE IF Strip(pieces[i]) # ""
    THEN <<Strip(pieces[i])>> \o StrippedPieces(pieces, i + 1)
    ELSE StrippedPieces(pieces, i + 1)

\* the numbering loop of _clean_instructions, joined with line breaks
RECURSIVE NumberedSteps(_, _)
NumberedSteps(steps, i) ==
    IF i > Len(steps) THEN ""
    ELSE LET step == IF StartsAt(steps[i], 1, ToStr(i)) THEN steps[i]
                     ELSE ToStr(i) \o ". " \o steps[i]
         IN IF i < Len(steps) THEN step \o "\n" \o NumberedSteps(steps, i + 1)
            ELSE step

\* TheMealDBIngester._clean_instructions on a string or None
CleanInstructions(v) ==
    IF ~Truthy(v) THEN ""
    ELSE LET replaced == Replace(Replace(v.s, "\\r\\n", "\n", 1), "\\n", "\n", 1)
         IN NumberedSteps(StrippedPieces(Split(replaced, "\n", 1, 1), 1), 1)

\* category.lower() if category else ""
LowerOrEmpty(v) == IF Truthy(v) THEN Lower(v.s) ELSE ""

\* TheMealDBIngester._determine_meal_type
DetermineMealType(category_v, tags_v) ==
    LET category == LowerOrEmpty(category_v)
        tags == LowerOrEmpty(tags_v)
    IN IF AnyKeyword(category, <<"breakfast", "brunch">>) THEN "breakfast"
       ELSE IF AnyKeyword(category, <<"lunch", "light">>) THEN "lunch"
       ELSE IF AnyKeyword(category, <<"dinner", "main">>) THEN "dinner"
       ELSE IF AnyKeyword(category, <<"dessert", "sweet">>) THEN "dessert"
       ELSE IF AnyKeyword(category, <<"side", "appetizer", "starter">>) THEN "appetizer"
       ELSE IF AnyKeyword(tags, <<"breakfast", "morning">>) THEN "breakfast"
       ELSE IF AnyKeyword(tags, <<"dessert", "sweet", "cake">>) THEN "dessert"
       ELSE "dinner"

\* [tag.strip().lower() for tag in tags.split(",") if tag.strip()]
RECURSIVE LowerPieces(_, _)
LowerPieces(pieces, i) ==
    IF i > Len(pieces) THEN << >>
    ELSE <<Lower(pieces[i])>> \o LowerPieces(pieces, i + 1)

\* tag_list of normalize_recipe
TagList(tags, category) ==
    LET from_tags == IF Truthy(tags)
                     THEN LowerPieces(StrippedPieces(Split(tags.s, ",", 1, 1), 1), 1)
                     ELSE << >>
    IN IF Truthy(category) THEN Append(from_tags, Lower(category.s)) ELSE from_tags

\* sum(1 for method in cooking_methods if method in instruction_text)
RECURSIVE CountKeywords(_, _, _)
CountKeywords(text, keywords, i) ==
    IF i > Len(keywords) THEN 0
    ELSE (IF KeywordIn(keywords[i], text) THEN 1 ELSE 0)
         + CountKeywords(text, keywords, i + 1)

\* BaseIngester.estimate_difficulty; the difficulty is counted in halves
\* until it is rounded
EstimateDifficulty(instr, n) ==
    LET instruction_text == Lower(instr)
        halves == 2
            + (IF n > 15 THEN 2 ELSE IF n > 10 THEN 1 ELSE 0)
            + (IF AnyKeyword(instruction_text,
                     <<"fold", "whip", "emulsify", "temper", "reduce", "deglaze",
                       "julienne", "brunoise", "chiffonade", "sous vide">>)
               THEN 2 ELSE 0)
            + (IF CountKeywords(instruction_text,
                     <<"bake", "fry", "sauté", "braise", "roast", "grill", "steam">>, 1) > 2
               THEN 1 ELSE 0)
            + (IF Len(instr) > 1000 THEN 1 ELSE 0)
    IN Min((halves + 1) \div 2, 5)

\* "x or None"
OrNone(v) == IF Truthy(v) THEN v ELSE None

\* TheMealDBIngester.normalize_recipe: the record it returns, or the raise
\* of _extract_ingredients
NormalizeRecipe(raw) ==
    LET name == Get(raw.strMeal, Str("Unknown Recipe"))
        cleaned == CleanInstructions(Get(raw.strInstructions, Str("")))
        got == ExtractIngredients(raw)
        ings == got.value
        category == Get(raw.strCategory, Str(""))
        cuisine == Get(raw.strArea, Str(""))
        tags == Get(raw.strTags, Str(""))
        meal_type == DetermineMealType(category, tags)
        flags == DetectDietaryRestrictions(ings)
        times == EstimateCookingTimes(cleaned, Len(ings))
        difficulty == EstimateDifficulty(cleaned, Len(ings))
    IN IF got.raised THEN Raise
       ELSE Returned(
          [name |-> name,
           description |-> IF Truthy(cuisine) /\ Truthy(category)
                           THEN Str("A delicious " \o cuisine.s \o " "
                                       \o Lower(category.s) \o " recipe")
                           ELSE None,
           instructions |-> cleaned,
           prep_time_minutes |-> times.prep_time_minutes,
           cook_time_minutes |-> times.cook_time_minutes,
           total_time_minutes |-> times.total_time_minutes,
           servings |-> 4,
           difficulty |-> difficulty,
           cuisine_type |-> OrNone(cuisine),
           meal_type |-> meal_type,
           course_type |-> IF meal_type \in {"breakfast", "lunch", "dinner"}
                           THEN "main" ELSE meal_type,
           dietary_flags |-> flags,
           ingredients_json |-> ings,
           tags |-> TagList(tags, category),
           external_id |-> Get(raw.idMeal, None),
           external_source |-> "themealdb"])

\* the names and measures a slot of the catalog can hold
SlotNames == {Absent, None, Str(""), Str(" "), Str("flour"), Str(" eggs ")}

SlotMeasures == {Absent, None, Str(""), Str("  "), Str(" 1 cup")}

Slots == [name : SlotNames, measure : SlotMeasures]

\* the slots after the filled ones, as the catalog sends them: missing,
\* empty strings, blanks, or null
TailSlots ==
    {[name |-> Absent, measure |-> Absent],
     [name |-> Str(""), measure |-> Str("")],
     [name |-> Str(" "), measure |-> Str(" ")],
     [name |-> None, measure |-> None]}

\* a raw record with the fields besides the slots as TheMealDB fills them
PlainRecord(head, tail) ==
    [idMeal |-> Str("52772"), strMeal |-> Str("Pie"),
     strInstructions |-> Str("Bake."), strCategory |-> Str("Dessert"),
     strArea |-> Str("British"), strTags |-> Str("Sweet"),
     head |-> head, tail |-> tail]

InitExtract ==
    /\ IngestIdle
    /\ \A k \in Keys : recipes[k] = 0
    /\ PureIdle
    /\ FixIdle
    /\ ConcIdle
    /\ raw_recipe \in {<<PlainRecord(head, tail)>> :
                          head \in UNION {[1..n -> Slots] : n \in 0..MaxSlots},
                          tail \in TailSlots}
    /\ extracted = << >>
    /\ normalized_recipe = << >>

\* a call of _extract_ingredients(raw_recipe)
CallExtractIngredients ==
    /\ extracted = << >>
    /\ extracted' = <<ExtractIngredients(raw_recipe[1])>>
    /\ UNCHANGED <<concVars, ingestVars, pureVars, fixVars, raw_recipe, normalized_recipe>>

NextExtract == CallExtractIngredients

ExtractSpec == InitExtract /\ [][NextExtract]_vars

\* the values the fields besides the slots take: a missing key, null, a text
NameFields == {Absent, None, Str("Pie")}

InstructionFields == {Absent, None, Str("Bake 45 minutes.\nChill")}

CategoryFields == {Absent, None, Str("Dessert")}

TagFields == {Absent, None, Str("Sweet, Cake")}

\* the slots of the records handed to normalize_recipe
NormalizeSlots ==
    {[name |-> Str("flour"), measure |-> Str(" 1 cup")],
     [name |-> Str("butter"), measure |-> Absent],
     [name |-> None, measure |-> None]}

\* the raw records handed to normalize_recipe
NormalizeRecords ==
    {[idMeal |-> Str("52772"), strMeal |-> meal, strInstructions |-> instr,
      strCategory |-> category, strArea |-> Str("British"), strTags |-> tags,
      head |-> head, tail |-> tail] :
        meal \in NameFields, instr \in InstructionFields,
        category \in CategoryFields, tags \in TagFields,
        head \in UNION {[1..n -> NormalizeSlots] : n \in 0..MaxSlots},
        tail \in TailSlots}

InitNormalize ==
    /\ IngestIdle
    /\ \A k \in Keys : recipes[k] = 0
    /\ PureIdle
    /\ FixIdle
    /\ ConcIdle
    /\ raw_recipe \in {<<raw>> : raw \in NormalizeRecords}
    /\ extracted = << >>
    /\ normalized_recipe = << >>

\* a call of normalize_recipe(raw_recipe), as the loop of run_ingestion makes it
CallNormalizeRecipe ==
    /\ normalized_recipe = << >>
    /\ normalized_recipe' = <<NormalizeRecipe(raw_recipe[1])>>
    /\ extracted' = <<ExtractIngredients(raw_recipe[1])>>
    /\ UNCHANGED <<concVars, ingestVars, pureVars, fixVars, raw_recipe>>

NextNormalize == CallNormalizeRecipe

NormalizeSpec == InitNormalize /\ [][NextNormalize]_vars

----------------------------------------------------------------------------
(* Processes side by side on one table *)

\* the ingredients the catalog has for a meal
MealIngredients(m) ==
    IF m % 2 = 1 THEN <<[name |-> "Chicken Stock"]>> ELSE <<[name |-> "butter"]>>

\* the row normalize_recipe makes of the meal with idMeal m
MealRow(m) ==
    NormalizedRow(m, RecipeNames[m], MealIngredients(m),
                  DetectDietaryRestrictions(MealIngredients(m)))

\* the ingestion runs that execute side by side
Workers == {1, 2}

\* db.query(Recipe).filter(external_id == .., external_source == ..).first()
\* on the committed rows: a row with the key exists
ExistingRow(rows, m) == \E i \in DOMAIN rows : rows[i].external_id = m

\* a run before the first record of its raw_recipes todo
NewWorker(todo) ==
    [pc |-> "loop", raw_recipes |-> todo, idx |-> 1, existing |-> FALSE,
     recipe |-> << >>,
     stats |-> [total_saved |-> 0, total_skipped |-> 0, total_errors |-> 0]]

\* the records a run has to save: no idMeal twice, as fetch_recipes returns them
WorkLists ==
    {todo \in UNION {[1..n -> Ids] : n \in 0..MaxTodo} :
        \A i, j \in DOMAIN todo : i # j => todo[i] # todo[j]}

\* the run goes on with its next record
NextRecord(w) ==
    [w EXCEPT !.pc = "loop", !.idx = @ + 1, !.existing = FALSE, !.recipe = << >>]

\* save_recipe of run p, up to its existence check: the query reads the
\* committed rows, or raises (the error is counted and the record is over)
QueryExisting(p, fails) ==
    /\ workers # << >>
    /\ workers[p].pc = "loop"
    /\ workers[p].idx <= Len(workers[p].raw_recipes)
    /\ workers' =
          [workers EXCEPT ![p] =
              IF fails
              THEN NextRecord([@ EXCEPT !.stats.total_errors = @ + 1])
              ELSE [@ EXCEPT !.pc = "queried",
                             !.existing =
                                 ExistingRow(table, workers[p].raw_recipes[workers[p].idx])]]
    /\ UNCHANGED <<ingestVars, pureVars, fixVars, extVars, db_recipe, seen>>

\* "if existing": the record is skipped
SkipExisting(p) ==
    /\ workers # << >>
    /\ workers[p].pc = "queried"
    /\ workers[p].existing
    /\ workers' = [workers EXCEPT ![p] =
                      NextRecord([@ EXCEPT !.stats.total_skipped = @ + 1])]
    /\ UNCHANGED <<ingestVars, pureVars, fixVars, extVars, db_recipe, seen>>

\* recipe = Recipe(**recipe_data); db.add(recipe): the row is in the
\* session of run p, not in the table
AddRecipe(p) ==
    /\ workers # << >>
    /\ workers[p].pc = "queried"
    /\ ~workers[p].existing
    /\ workers' = [workers EXCEPT ![p] =
                      [@ EXCEPT !.pc = "added",
                                !.recipe =
                                    <<MealRow(workers[p].raw_recipes[workers[p].idx])>>]]
    /\ UNCHANGED <<ingestVars, pureVars, fixVars, extVars, db_recipe, seen>>

\* db.commit() of run p: the whole row enters the table, there being no
\* unique constraint on the key; or the commit raises and is rolled back
CommitRecipe(p, fails) ==
    /\ workers # << >>
    /\ workers[p].pc = "added"
    /\ table' = IF fails THEN table ELSE Append(table, workers[p].recipe[1])
    /\ workers' =
          [workers EXCEPT ![p] =
              IF fails
              THEN NextRecord([@ EXCEPT !.stats.total_errors = @ + 1])
              ELSE NextRecord([@ EXCEPT !.stats.total_saved = @ + 1])]
    /\ UNCHANGED <<ingestVars, pureVars, extVars, db_recipe, seen, table0,
                   fix_pc, recipe_id, restriction_type, fix_dry_run,
                   recipes_to_check, fix_idx, changes, fixes_made,
                   total_recipes_changed, fix_summaries>>

\* (mutant) a session whose changes reach the table as they are made
VisibleAtOnce(rows, id, row, committed) == [rows EXCEPT ![id] = row]

\* the table after a step of a session (SessionLocal, autocommit=False) that
\* holds row for the record id: the row reaches the table with db.commit()
\* and not before
Visible(rows, id, row, committed) ==
    IF committed THEN [rows EXCEPT ![id] = row] ELSE rows

\* fix_recipe_flags up to "if not dry_run": the diff, its log lines and the
\* ledger; with no changes, or in a dry run, the record is over
AnalyzeRecipe ==
    /\ fix_pc = "scanning"
    /\ fix_idx <= Len(recipes_to_check)
    /\ LET recipe == recipes_to_check[fix_idx]
           diff == AnalyzeSingleRecipe(recipe.row)
       IN /\ changes' = diff
          /\ fixes_made' = TrackChanges(fixes_made, recipe.row.name, diff, 1)
          /\ IF diff = << >>
             THEN UNCHANGED <<fix_pc, total_recipes_changed>> /\ fix_idx' = fix_idx + 1
             ELSE IF fix_dry_run
             THEN /\ total_recipes_changed' = total_recipes_changed + 1
                  /\ fix_idx' = fix_idx + 1
                  /\ UNCHANGED fix_pc
             ELSE /\ fix_pc' = "updating"
                  /\ UNCHANGED <<fix_idx, total_recipes_changed>>
    /\ UNCHANGED <<ingestVars, pureVars, extVars, concVars, table, table0,
                   recipe_id, restriction_type, fix_dry_run, recipes_to_check,
                   fix_summaries>>

\* db_recipe = db.query(Recipe).filter(Recipe.id == recipe.id).first()
QueryRecipe ==
    /\ fix_pc = "updating"
    /\ db_recipe = << >>
    /\ LET id == recipes_to_check[fix_idx].id
       IN db_recipe' = <<[id |-> id, row |-> table[id], k |-> 0, stamped |-> FALSE]>>
    /\ UNCHANGED <<ingestVars, pureVars, extVars, fixVars, workers, seen>>

\* setattr(db_recipe, flag_name, change["new"]) for the next change
SetFlag ==
    /\ fix_pc = "updating"
    /\ db_recipe # << >>
    /\ db_recipe[1].k < Len(changes)
    /\ LET change == changes[db_recipe[1].k + 1]
           row == [db_recipe[1].row EXCEPT ![change.flag] = change.new]
       IN /\ db_recipe' = <<[db_recipe[1] EXCEPT !.row = row, !.k = @ + 1]>>
          /\ table' = Visible(table, db_recipe[1].id, row, FALSE)
    /\ UNCHANGED <<ingestVars, pureVars, extVars, workers, seen, table0, fix_pc,
                   recipe_id, restriction_type, fix_dry_run, recipes_to_check,
                   fix_idx, changes, fixes_made, total_recipes_changed,
                   fix_summaries>>

\* db_recipe.updated_at = datetime.now()
StampRecipe ==
    /\ fix_pc = "updating"
    /\ db_recipe # << >>
    /\ db_recipe[1].k = Len(changes)
    /\ ~db_recipe[1].stamped
    /\ LET row == [db_recipe[1].row EXCEPT !.updated_at = 1]
       IN /\ db_recipe' = <<[db_recipe[1] EXCEPT !.row = row, !.stamped = TRUE]>>
          /\ table' = Visible(table, db_recipe[1].id, row, FALSE)
    /\ UNCHANGED <<ingestVars, pureVars, extVars, workers, seen, table0, fix_pc,
                   recipe_id, restriction_type, fix_dry_run, recipes_to_check,
                   fix_idx, changes, fixes_made, total_recipes_changed,
                   fix_summaries>>

\* db.commit() of fix_recipe_flags, or its raise: rollback, and run_analysis
\* goes on with the next record without counting this one
CommitFix(fails) ==
    /\ fix_pc = "updating"
    /\ db_recipe # << >>
    /\ db_recipe[1].stamped
    /\ table' = IF fails THEN table
                ELSE Visible(table, db_recipe[1].id, db_recipe[1].row, TRUE)
    /\ total_recipes_changed' =
          IF fails THEN total_recipes_changed ELSE total_recipes_changed + 1
    /\ db_recipe' = << >>
    /\ fix_idx' = fix_idx + 1
    /\ fix_pc' = "scanning"
    /\ UNCHANGED <<ingestVars, pureVars, extVars, workers, seen, table0,
                   recipe_id, restriction_type, fix_dry_run, recipes_to_check,
                   changes, fixes_made, fix_summaries>>

\* a reader of the query layer: db.query(Recipe) returns the committed rows
ReadRecipes ==
    /\ seen # table
    /\ seen' = table
    /\ UNCHANGED <<ingestVars, pureVars, extVars, fixVars, workers, db_recipe>>

\* the tables the processes start on: empty, or one row with wrong flags
StartTables == {<< >>, <<StoredRow(1, [ings |-> <<[name |-> "Chicken Stock"]>>,
                                       flags |-> "set"])>>}

\* an ingestion run, a reclassification and a reader side by side
InitRead ==
    /\ IngestIdle
    /\ \A k \in Keys : recipes[k] = 0
    /\ PureIdle
    /\ ExtIdle
    /\ table \in StartTables
    /\ table0 = table
    /\ fix_pc = "idle"
    /\ recipe_id = 0
    /\ restriction_type = "None"
    /\ fix_dry_run = FALSE
    /\ recipes_to_check = << >>
    /\ fix_idx = 1
    /\ changes = << >>
    /\ fixes_made = NewFixesMade
    /\ total_recipes_changed = 0
    /\ fix_summaries = 0
    /\ workers \in [{1} -> {NewWorker(todo) : todo \in WorkLists}]
    /\ db_recipe = << >>
    /\ seen = << >>

NextRead ==
    \/ \E fails \in BOOLEAN : QueryExisting(1, fails)
    \/ SkipExisting(1)
    \/ AddRecipe(1)
    \/ \E fails \in BOOLEAN : CommitRecipe(1, fails)
    \/ \E dry \in BOOLEAN : StartAnalysis(0, "None", dry)
    \/ AnalyzeRecipe
    \/ QueryRecipe
    \/ SetFlag
    \/ StampRecipe
    \/ \E fails \in BOOLEAN : CommitFix(fails)
    \/ FinishAnalysis
    \/ ReadRecipes

ReadSpec == InitRead /\ [][NextRead]_vars

\* two ingestion runs side by side on an empty table
InitRace ==
    /\ IngestIdle
    /\ \A k \in Keys : recipes[k] = 0
    /\ PureIdle
    /\ FixIdle
    /\ ExtIdle
    /\ workers \in [Workers -> {NewWorker(todo) : todo \in WorkLists}]
    /\ db_recipe = << >>
    /\ seen = << >>

NextRace ==
    \E p \in Workers :
        \/ \E fails \in BOOLEAN : QueryExisting(p, fails)
        \/ SkipExisting(p)
        \/ AddRecipe(p)
        \/ \E fails \in BOOLEAN : CommitRecipe(p, fails)

RaceSpec == InitRace /\ [][NextRace]_vars

----------------------------------------------------------------------------
(* Properties *)

IdsOf(records) == [i \in 1..Len(records) |-> records[i].idMeal]

\* the newest save_recipe call recorded in a history
Newest(calls) == calls[Len(calls)]

\* C1: save idempotence. A save_recipe call with key k and no storage
\* failure on a store without a row of key k is Saved, total_saved grows by
\* one and the store by one row; the call that follows it with the same key
\* and no storage failure is SkippedDuplicate, total_skipped grows by one,
\* and the store holds exactly one row more than before the two calls.
C1_SaveIdempotent ==
    [][(pc = "idle" /\ Len(saves') >= 1) =>
          LET call == Newest(saves')
          IN /\ (recipes[<<"themealdb", call.key>>] = 0 /\ call.outcome # "Error")
                   => /\ call.outcome = "Saved"
                      /\ stats'.total_saved = stats.total_saved + 1
                      /\ stats'.total_skipped = stats.total_skipped
                      /\ RowCount(recipes') = RowCount(recipes) + 1
             /\ (/\ Len(saves) >= 1
                 /\ Newest(saves).key = call.key
                 /\ Newest(saves).outcome = "Saved"
                 /\ call.outcome # "Error")
                   => /\ call.outcome = "SkippedDuplicate"
                      /\ stats'.total_skipped = stats.total_skipped + 1
                      /\ stats'.total_saved = stats.total_saved
                      /\ RowCount(recipes') = Newest(saves).rowsBefore + 1]_vars

\* two calls in a row with one key: Saved, then SkippedDuplicate
C1_Witness ==
    /\ Len(saves) = 2
    /\ saves[1].key = saves[2].key
    /\ saves[1].outcome = "Saved"
    /\ saves[2].outcome = "SkippedDuplicate"
    /\ RowCount(recipes) = saves[1].rowsBefore + 1

\* C2: uniqueness. From a store in which no two rows share a key, after
\* any sequence of runs (any limits, fetch results, dry or live, storage
\* failures) no two rows share (external_source, external_id).
C2_UniqueKeys == \A k \in Keys : recipes[k] <= 1

\* a second run that skipped a stored record and saved a new one
C2_Witness ==
    /\ runs = 2
    /\ pc = "done"
    /\ ~dry_run
    /\ stats.total_skipped >= 1
    /\ stats.total_saved >= 1

\* a record of the run failed: its normalization raised, or its save ended in Error
RecordFailed(raw, callsAfter) ==
    \/ NormalizeRaises(raw)
    \/ ~dry_run /\ Newest(callsAfter).outcome = "Error"

\* C3: per-record error isolation. In a run with n >= 1 fetched records the
\* loop attempts each record once, in fetched order, whatever failed before;
\* a failing record adds exactly 1 to total_errors; the loop never raises to
\* the caller and never stops short of Done.
C3_ErrorIsolation ==
    /\ [](pc = "processing" => ENABLED ((\E fault \in Faults : ProcessRecord(fault)) \/ FinishRun))
    /\ []((pc = "done" /\ Len(raw_recipes) >= 1)
            => (attempted = IdsOf(raw_recipes) /\ ~raised))
    /\ [][pc = "processing" =>
            /\ ~raised'
            /\ IF idx <= Len(raw_recipes)
               THEN /\ pc' = "processing"
                    /\ idx' = idx + 1
                    /\ attempted' = Append(attempted, raw_recipes[idx].idMeal)
                    /\ stats'.total_errors = stats.total_errors +
                          (IF RecordFailed(raw_recipes[idx], saves') THEN 1 ELSE 0)
               ELSE /\ pc' = "done"
                    /\ attempted' = attempted
                    /\ stats'.total_errors = stats.total_errors]_vars

\* a finished run whose first record failed to normalize and whose second was saved
C3_Witness ==
    /\ pc = "done"
    /\ ~raised
    /\ Len(raw_recipes) = 2
    /\ NormalizeRaises(raw_recipes[1])
    /\ ~NormalizeRaises(raw_recipes[2])
    /\ attempted = IdsOf(raw_recipes)
    /\ stats.total_errors = 1
    /\ stats.total_saved = 1

\* C4: persistence failure. When a storage call of save_recipe raises, the
\* table holds the rows it held before the call, total_errors grows by
\* exactly 1, total_saved and total_skipped do not change, and the loop
\* goes on to the next fetched record.
C4_PersistenceFailure ==
    /\ [](pc = "processing" /\ idx <= Len(raw_recipes)
            => ENABLED (\E fault \in Faults : ProcessRecord(fault)))
    /\ [][(/\ pc = "processing"
           /\ idx <= Len(raw_recipes)
           /\ ~dry_run
           /\ ~NormalizeRaises(raw_recipes[idx])
           /\ Newest(saves').outcome = "Error")
            => /\ recipes' = recipes
               /\ stats'.total_errors = stats.total_errors + 1
               /\ stats'.total_saved = stats.total_saved
               /\ stats'.total_skipped = stats.total_skipped
               /\ pc' = "processing"
               /\ idx' = idx + 1]_vars

\* a finished run whose first save failed and whose second record was saved
C4_Witness ==
    /\ pc = "done"
    /\ Len(raw_recipes) = 2
    /\ Len(saves) = 2
    /\ saves[1].outcome = "Error"
    /\ saves[2].outcome = "Saved"
    /\ stats.total_errors = 1
    /\ stats.total_saved = 1
    /\ RowCount(recipes) = RowCount(recipes0) + 1

\* C5: statistics are always emitted. When run_ingestion has ended (loop
\* finished, early return on an empty fetch, or fatal fetch failure)
\* end_time is set and print_summary has been called exactly once; before
\* the end it has not been called; a raise reaches the caller only then.
C5_StatsEmitted ==
    /\ pc \in {"done", "fatal"} => (summaries = 1 /\ stats.end_time = "set")
    /\ pc \in {"fetching", "gathered", "processing"}
          => (summaries = 0 /\ stats.end_time = "None" /\ ~raised)

\* a run ended by the raise of its fetch, its summary printed once
C5_Witness ==
    /\ pc = "fatal"
    /\ raised
    /\ summaries = 1
    /\ stats.end_time = "set"

\* C6: fatal fetch. If fetch_recipes raises, the run is in FatalError with
\* the raise passed to the caller: no record was attempted, total_processed,
\* total_saved and total_skipped are as before the run, the store is as it
\* was; FatalError is entered from Fetching only, and only by such a raise.
C6_FatalFetch ==
    /\ [](fetchRaised =>
            /\ pc = "fatal"
            /\ raised
            /\ attempted = << >>
            /\ stats.total_processed = 0
            /\ stats.total_saved = 0
            /\ stats.total_skipped = 0
            /\ recipes = recipes0)
    /\ [][(pc' = "fatal" /\ pc # "fatal") => (Phase = "Fetching" /\ fetchRaised')]_vars

\* a live run on a non-empty store ended by the raise of its fetch
C6_Witness ==
    /\ pc = "fatal"
    /\ fetchRaised
    /\ raised
    /\ ~dry_run
    /\ RowCount(recipes) >= 1
    /\ recipes = recipes0

\* the fetch of the run is over
FetchOver == pc \in {"processing", "done", "fatal"}

\* C7: unreachable catalog aborts the fetch. If every catalog call of the
\* fetch failed (none answered), the fetch has raised to run_ingestion.
C7_UnreachableAborts == (FetchOver /\ someFailed /\ ~someOk) => fetchRaised

\* C8: single fetch failures are skipped. When one category listing, one
\* meal-detail call or one random call fails and others answer, the fetch
\* does not abort: the gathered sequence holds every record the answered
\* calls gave, those after the failure too, in call order, and fetch_recipes
\* returns it deduplicated to run_ingestion.
C8_FailuresSkipped ==
    (someFailed /\ someOk) =>
        /\ all_recipes = obtained
        /\ (FetchOver /\ ~closeFailed) =>
              /\ ~fetchRaised
              /\ pc # "fatal"
              /\ raw_recipes = FetchResult(obtained, limit)

\* a fetch with a failed call and two obtained records, both returned
C8_Witness ==
    /\ pc = "processing"
    /\ someFailed
    /\ someOk
    /\ Len(obtained) = 2
    /\ Len(raw_recipes) = 2
    /\ IdsOf(raw_recipes) = IdsOf(obtained)

\* the positions of G holding the first occurrence of their idMeal
FirstOccurrences(G) ==
    {i \in 1..Len(G) : \A j \in 1..(i - 1) : G[j].idMeal # G[i].idMeal}

\* the position of the k-th first occurrence of G
KthFirst(G, k) ==
    CHOOSE i \in FirstOccurrences(G) :
        Cardinality({j \in FirstOccurrences(G) : j <= i}) = k

\* C9: dedup, then truncate. For a gathered sequence G with d distinct
\* idMeal values and a limit >= 1, fetch_recipes returns min(limit, d)
\* records: the first occurrences of the ids of G, in the order of G,
\* cut to the first limit of them.
C9_DedupThenTruncate ==
    (pc \in {"processing", "done"} /\ limit >= 1) =>
        /\ Len(raw_recipes) = Min(limit, Cardinality(FirstOccurrences(all_recipes)))
        /\ \A k \in 1..Len(raw_recipes) :
              raw_recipes[k] = all_recipes[KthFirst(all_recipes, k)]
        /\ \A i, j \in 1..Len(raw_recipes) :
              i # j => raw_recipes[i].idMeal # raw_recipes[j].idMeal

\* a duplicate among the first limit records of G: the last returned
\* record comes from behind the duplicate, the rest of G is cut off
C9_Witness ==
    /\ pc = "processing"
    /\ limit = 2
    /\ Len(all_recipes) = 4
    /\ all_recipes[1].idMeal = all_recipes[2].idMeal
    /\ all_recipes[1] # all_recipes[2]
    /\ all_recipes[3].idMeal # all_recipes[1].idMeal
    /\ raw_recipes = <<all_recipes[1], all_recipes[3]>>

\* C10: bounded enumeration. With a limit >= 1 no category is listed once
\* the running total has reached the limit; random calls are made only if
\* the total after the categories is below the limit, and then at most
\* min(limit - total, 50) of them.
C10_BoundedEnumeration ==
    [][(limit >= 1 /\ pc = "fetching") =>
          /\ catIdx' = catIdx + 1 => Len(all_recipes) < limit
          /\ (pc' # "fetching" /\ randomCalls' > 0) =>
                /\ Len(all_recipes) < limit
                /\ randomCalls' <= Min(limit - Len(all_recipes), 50)]_vars

\* a fetch whose random top-up was cut to 50 calls
C10_Witness ==
    /\ pc = "gathered"
    /\ limit - afterCats > 50
    /\ randomCalls = 50

\* C11: dry run suppresses writes. After a run with dry_run the store is
\* as it was before, save_recipe was never called, total_saved and
\* total_skipped are 0, and every fetched record was normalized and counted
\* in total_processed.
C11_DryRunSuppressesWrites ==
    (pc = "done" /\ dry_run) =>
        /\ recipes = recipes0
        /\ saves = << >>
        /\ stats.total_saved = 0
        /\ stats.total_skipped = 0
        /\ stats.total_processed = Len(raw_recipes)

\* the frame part alone: no write, no save_recipe call, no saved or skipped count
C11_NoWrites ==
    (pc \in {"processing", "done"} /\ dry_run) =>
        /\ recipes = recipes0
        /\ saves = << >>
        /\ stats.total_saved = 0
        /\ stats.total_skipped = 0

\* C20: time clamps. estimate_cooking_times returns prep <= 60,
\* cook <= 180 and total = min(prep + cook, 240) for the prep and cook it
\* returns; with no keyword, no time mention and 100 ingredients it returns
\* prep 60, cook 15, total 75.
C20_TimeClamps ==
    time_estimates # << >> =>
        LET t == time_estimates[1]
        IN /\ t.prep_time_minutes <= 60
           /\ t.cook_time_minutes <= 180
           /\ t.total_time_minutes = Min(t.prep_time_minutes + t.cook_time_minutes, 240)
           /\ (instructions = "" /\ num_ingredients = 100) =>
                 t = [prep_time_minutes |-> 60, cook_time_minutes |-> 15,
                      total_time_minutes |-> 75]

\* the two caps alone
C20_Caps ==
    time_estimates # << >> =>
        /\ time_estimates[1].prep_time_minutes <= 60
        /\ time_estimates[1].cook_time_minutes <= 180
        /\ time_estimates[1].total_time_minutes <= 240

\* the eight flags of DietaryFlags
FlagNames ==
    {"is_vegetarian", "is_vegan", "is_gluten_free", "is_dairy_free",
     "is_nut_free", "is_low_carb", "is_keto", "is_paleo"}

\* the keyword k occurs somewhere in the text t
Occurs(k, t) == \E a \in 0..(Len(t) - Len(k)) : SubSeq(t, a + 1, a + Len(k)) = k

\* some keyword of the list occurs in the case-folded, space-joined names
Present(keywords, ings) ==
    \E j \in 1..Len(keywords) : Occurs(keywords[j], IngredientText(ings))

\* C12: vegan implies vegetarian, for the flags either copy of the
\* classifier returns and for every row an ingestion inserts.
C12_VeganImpliesVegetarian ==
    /\ dietary_flags # << >> => (dietary_flags[1].is_vegan => dietary_flags[1].is_vegetarian)
    /\ fixer_flags # << >> => (fixer_flags[1].is_vegan => fixer_flags[1].is_vegetarian)
    /\ \A i \in 1..Len(table) : table[i].is_vegan => table[i].is_vegetarian

\* a dairy-free list with meat, classified by both copies, its row inserted
C12_Witness ==
    /\ dietary_flags # << >>
    /\ fixer_flags # << >>
    /\ Len(table) = 1
    /\ Present(meat_keywords, ingredients)
    /\ table[1].is_dairy_free
    /\ ~table[1].is_vegan

\* C13: meat detection. Whenever a meat keyword occurs as a substring of
\* the case-folded, space-joined ingredient names, the classifier returns
\* is_vegetarian = is_vegan = FALSE; tofu / soy sauce / rice yields
\* is_vegetarian = TRUE and is_gluten_free = FALSE.
C13_MeatDetection ==
    dietary_flags # << >> =>
        /\ Present(meat_keywords, ingredients)
              => (~dietary_flags[1].is_vegetarian /\ ~dietary_flags[1].is_vegan)
        /\ ingredients = <<[name |-> "tofu"], [name |-> "soy sauce"], [name |-> "rice"]>>
              => (dietary_flags[1].is_vegetarian /\ ~dietary_flags[1].is_gluten_free)

\* a list whose only meat keyword lies inside a longer word, classified as meat
C13_Witness ==
    /\ dietary_flags # << >>
    /\ ingredients = <<[name |-> "tofu"], [name |-> "graham cracker"]>>
    /\ ~dietary_flags[1].is_vegetarian
    /\ ~dietary_flags[1].is_vegan

\* C14: derivation rules. With has_meat, has_dairy, has_gluten, has_nuts
\* the presence of a keyword of each list, the classifier returns
\* vegetarian = ~meat, vegan = ~meat /\ ~dairy, gluten_free = ~gluten,
\* dairy_free = ~dairy, nut_free = ~nuts, paleo = ~dairy /\ ~gluten,
\* low_carb = keto = FALSE; it returns eight booleans for every list, and
\* an empty or unmatched list has every flag TRUE but low_carb and keto.
C14_DerivationRules ==
    /\ dietary_flags = << >> =>
          LET r == DetectDietaryRestrictions(ingredients)
          IN /\ DOMAIN r = FlagNames
             /\ \A f \in FlagNames : r[f] \in BOOLEAN
    /\ dietary_flags # << >> =>
        LET has_meat == Present(meat_keywords, ingredients)
            has_dairy == Present(dairy_keywords, ingredients)
            has_gluten == Present(gluten_keywords, ingredients)
            has_nuts == Present(nut_keywords, ingredients)
        IN /\ dietary_flags[1] =
                 [is_vegetarian |-> ~has_meat,
                  is_vegan |-> ~has_meat /\ ~has_dairy,
                  is_gluten_free |-> ~has_gluten,
                  is_dairy_free |-> ~has_dairy,
                  is_nut_free |-> ~has_nuts,
                  is_low_carb |-> FALSE,
                  is_keto |-> FALSE,
                  is_paleo |-> ~has_dairy /\ ~has_gluten]
           /\ (~has_meat /\ ~has_dairy /\ ~has_gluten /\ ~has_nuts) =>
                 \A f \in DOMAIN dietary_flags[1] :
                     dietary_flags[1][f] = (f \notin {"is_low_carb", "is_keto"})

\* a list with dairy and no gluten, classified: not paleo, gluten free
C14_Witness ==
    /\ dietary_flags # << >>
    /\ ingredients = <<[name |-> "butter"], [name |-> "rice"]>>
    /\ ~dietary_flags[1].is_paleo
    /\ dietary_flags[1].is_gluten_free
    /\ dietary_flags[1].is_vegetarian

\* the set of keywords of a list
KeywordSet(keywords) == {keywords[j] : j \in 1..Len(keywords)}

\* C15: one classifier. The ingestion copy and the reclassification copy
\* return the same eight flags for every ingredient list, and their four
\* keyword sets are the same.
C15_OneClassifier ==
    /\ (dietary_flags # << >> /\ fixer_flags # << >>) => dietary_flags = fixer_flags
    /\ KeywordSet(meat_keywords) = KeywordSet(fixer_meat_keywords)
    /\ KeywordSet(dairy_keywords) = KeywordSet(fixer_dairy_keywords)
    /\ KeywordSet(gluten_keywords) = KeywordSet(fixer_gluten_keywords)
    /\ KeywordSet(nut_keywords) = KeywordSet(fixer_nut_keywords)

\* a list with a meat keyword inside a word, classified alike by both copies
C15_Witness ==
    /\ dietary_flags # << >>
    /\ fixer_flags # << >>
    /\ ingredients = <<[name |-> "graham cracker"], [name |-> "peanut oil"]>>
    /\ ~fixer_flags[1].is_vegetarian
    /\ ~fixer_flags[1].is_nut_free

\* C16: in a dry run of run_analysis, whatever the recipe_id, the restriction
\* filter and the stored rows, every stored row stays as it was before the
\* call: its eight flags, updated_at and every other column.
C16_DryRunReadOnly ==
    (fix_pc # "idle" /\ fix_dry_run) => table = table0

\* a dry run over a row whose flags are wrong has ended: the diff was
\* reported, the row is as stored
C16_Witness ==
    /\ fix_pc = "done"
    /\ fix_dry_run
    /\ total_recipes_changed > 0
    /\ \E i \in 1..Len(table) :
          /\ table[i].is_vegan
          /\ ~FixerDetectDietaryRestrictions(table[i].ingredients_json).is_vegan
          /\ table[i].updated_at = 0
    /\ table = table0

\* the record fix_recipe_flags was last called on
LastChecked == recipes_to_check[fix_idx - 1].row

\* the entries of a diff
Entries(diff) == {diff[i] : i \in DOMAIN diff}

\* C17: for a record with ingredients the diff holds exactly the flags whose
\* stored value differs from the classifier's value on the stored
\* ingredients, each with old = the stored value and new = the classifier's
\* value; so a record whose stored flags all equal the classifier's output
\* has an empty diff.
C17_ExactDiff ==
    (fix_pc # "idle" /\ fix_idx > 1 /\ LastChecked.ingredients_json # << >>) =>
        LET corrected == FixerDetectDietaryRestrictions(LastChecked.ingredients_json)
        IN Entries(changes) =
              {[flag |-> f, old |-> PyBool(LastChecked[f]), new |-> corrected[f]] :
                  f \in {g \in FlagNames : LastChecked[g] # corrected[g]}}

\* the columns of a row that are neither a flag nor updated_at
OtherColumns == DOMAIN NormalizedRow(1, "", << >>, DetectDietaryRestrictions(<< >>))
                   \ (FlagNames \cup {"updated_at"})

\* C18: a call of fix_recipe_flags outside a dry run that changes the table
\* (the diff is not empty and the update commits) leaves every flag of the
\* record equal to the classifier's value on its stored ingredients and
\* updated_at stamped; the record's other columns (identity, name,
\* ingredients, timing, tags) and every other record are as before.
C18_AppliesCorrection ==
    [][(fix_idx' = fix_idx + 1 /\ table' # table) =>
          LET id == recipes_to_check[fix_idx].id
              corrected == FixerDetectDietaryRestrictions(table[id].ingredients_json)
          IN /\ ~fix_dry_run
             /\ changes' # << >>
             /\ \A f \in FlagNames : table'[id][f] = corrected[f]
             /\ table'[id].updated_at = 1
             /\ \A c \in OtherColumns : table'[id][c] = table[id][c]
             /\ DOMAIN table' = DOMAIN table
             /\ \A j \in DOMAIN table : j # id => table'[j] = table[j]]_vars

\* a committed update has corrected a record stored as vegan with chicken
\* stock among its ingredients, next to a record it left alone
C18_Witness ==
    /\ fix_pc = "scanning"
    /\ ~fix_dry_run
    /\ fix_idx > 1
    /\ changes # << >>
    /\ LET id == recipes_to_check[fix_idx - 1].id
       IN /\ table0[id].is_vegan /\ ~table[id].is_vegan
          /\ table0[id].is_vegetarian /\ ~table[id].is_vegetarian
          /\ table0[id].updated_at = 0 /\ table[id].updated_at = 1
          /\ table[id].ingredients_json = <<[name |-> "Chicken Stock"]>>
          /\ \E j \in DOMAIN table : j # id /\ table[j] = table0[j]

\* the changes of a diff to the flag of a tracked kind (none or one)
ChangesTo(diff, kind) == SelectSeq(diff, LAMBDA d : d.flag = "is_" \o kind)

\* C19: at every point of a run and for each tracked flag kind the examples
\* are at most 3, as many as min(fixed, 3), and the first changes of that
\* flag met in scan order: each record checked adds its change of the flag
\* to fixed, and to the end of the examples while there are fewer than 3;
\* nothing else touches the ledger.
C19_FixReportBound ==
    /\ [](\A kind \in TrackedKinds :
            /\ Len(fixes_made[kind].examples) <= 3
            /\ Len(fixes_made[kind].examples) =
                  IF fixes_made[kind].fixed < 3 THEN fixes_made[kind].fixed ELSE 3)
    /\ [][\A kind \in TrackedKinds :
            IF fix_idx' = fix_idx + 1
            THEN LET hits == ChangesTo(changes', kind)
                     name == recipes_to_check[fix_idx].row.name
                     room == 3 - Len(fixes_made[kind].examples)
                     taken == IF Len(hits) <= room THEN hits
                              ELSE SubSeq(hits, 1, room)
                 IN /\ fixes_made'[kind].fixed = fixes_made[kind].fixed + Len(hits)
                    /\ fixes_made'[kind].examples =
                          fixes_made[kind].examples \o
                             [i \in DOMAIN taken |->
                                 [name |-> name, old |-> taken[i].old,
                                  new |-> taken[i].new]]
            ELSE fixes_made'[kind] = fixes_made[kind]]_vars

\* four records in a row had their is_vegan corrected: the ledger counts 4
\* and shows the first three, in scan order
C19_Witness ==
    /\ fixes_made["vegan"].fixed = 4
    /\ Len(fixes_made["vegan"].examples) = 3
    /\ \A i \in 1..3 :
          fixes_made["vegan"].examples[i] =
             [name |-> recipes_to_check[i].row.name, old |-> "True", new |-> FALSE]
    /\ recipes_to_check[4].row.name \notin
          {fixes_made["vegan"].examples[i].name : i \in 1..3}

\* the text of a field, trimmed; nothing when the field is missing or null
Trimmed(field) == IF field.kind = "str" THEN Strip(field.s) ELSE ""

\* the slots 1..NumSlots of a raw record, in slot order
SlotSeq(raw) == [i \in 1..NumSlots |-> SlotOf(raw, i)]

\* a slot that names an ingredient
Filled(slot) == Trimmed(slot.name) # ""

\* the ingredient of a filled slot
IngredientOf(slot) ==
    [name |-> Trimmed(slot.name),
     amount |-> IF Trimmed(slot.measure) # "" THEN Trimmed(slot.measure)
                ELSE "to taste"]

\* the ingredients of the filled slots, in slot order
FilledSlots(raw) ==
    LET filled == SelectSeq(SlotSeq(raw), Filled)
    IN [i \in DOMAIN filled |-> IngredientOf(filled[i])]

\* C21: for every raw record _extract_ingredients yields the slots 1..20
\* whose trimmed name is not empty, in slot order, each slot judged on its
\* own, with the trimmed measure as amount, or "to taste" when the measure
\* is empty or absent.
C21_IngredientExtraction ==
    extracted # << >> =>
        /\ ~extracted[1].raised
        /\ extracted[1].value = FilledSlots(raw_recipe[1])

\* a slot of the record holds null for its name or its measure
HasNullSlot(raw) ==
    \E i \in 1..NumSlots :
        SlotOf(raw, i).name.kind = "null" \/ SlotOf(raw, i).measure.kind = "null"

\* on the records with no null slot the extraction is as C21 has it, and
\* the others are the ones it raises on
C21_WithoutNull ==
    extracted # << >> =>
        IF HasNullSlot(raw_recipe[1]) THEN extracted[1].raised
        ELSE /\ ~extracted[1].raised
             /\ extracted[1].value = FilledSlots(raw_recipe[1])

\* C22: normalize_recipe is total: for every raw record of the catalog, a
\* missing name, missing fields and empty or null ingredient, measure,
\* category, tag and instruction fields included, it returns a record and
\* does not raise, and the record has the placeholder name when the raw
\* record has no name.
C22_NormalizationTotal ==
    normalized_recipe # << >> =>
        /\ ~normalized_recipe[1].raised
        /\ raw_recipe[1].strMeal.kind = "absent" =>
              normalized_recipe[1].value.name = Str("Unknown Recipe")

\* the rows of the table with the key ("themealdb", m)
RowsWithKey(m) == {i \in DOMAIN table : table[i].external_id = m}

\* C23: when two ingestion runs execute side by side on one table and both
\* process a record with the same (external_source, external_id) key, then
\* in every interleaving of their existence checks and inserts at most one
\* row with that key is stored (one run saves it, the other skips it or
\* counts an error).
C23_RaceFreeDedup ==
    \A m \in Ids : Cardinality(RowsWithKey(m)) <= 1

\* the row with id i as it was first committed: stored from the start, or
\* inserted by the ingestion of meal m
FirstCommitted(i, m) == IF i <= Len(table0) THEN table0[i] ELSE MealRow(m)

\* C24: a reader of the table beside an ingestion and a reclassification
\* sees whole records only: an ingested recipe with all its columns, flags
\* and full ingredient list, as one commit made it, and a reclassified
\* record either as it was or with every flag of its diff changed and the
\* new updated_at together.
C24_ReadersSeeWholeRecords ==
    \A i \in DOMAIN seen :
        LET first == FirstCommitted(i, seen[i].external_id)
        IN \/ seen[i] = first
           \/ seen[i] = UpdatedRow(first, AnalyzeSingleRecipe(first))

\* a reader has seen the stored record after its reclassification and the
\* ingested one after its insert, whole
C24_Witness ==
    /\ Len(table0) = 1
    /\ Len(seen) = 2
    /\ table0[1].is_vegan /\ ~seen[1].is_vegan
    /\ table0[1].is_low_carb /\ ~seen[1].is_low_carb
    /\ seen[1].updated_at = 1
    /\ seen[2] = MealRow(2)
    /\ seen[2].ingredients_json = MealIngredients(2)

\* the instruction text has one of the words quick, fast, minutes
HasQuickWord ==
    \E w \in {"quick", "fast", "minutes"} : Occurs(w, Lower(instructions))

\* C25 as stated: whatever the input, the quick adjustment leaves the cook
\* estimate at 15 or more and the prep estimate at 5 or more (the final
\* clamps, at 180 and 60, change neither bound).
C25_QuickFloors ==
    time_estimates # << >> =>
        /\ time_estimates[1].cook_time_minutes >= 15
        /\ time_estimates[1].prep_time_minutes >= 5

\* C25 amended: the cook estimate is at least 10 for every input, and at
\* least 15 when the text has none of quick, fast, minutes; the prep
\* estimate is at least 5.
C25_QuickFloorsAmended ==
    time_estimates # << >> =>
        /\ time_estimates[1].cook_time_minutes >= 10
        /\ ~HasQuickWord => time_estimates[1].cook_time_minutes >= 15
        /\ time_estimates[1].prep_time_minutes >= 5

\* a text with "quick" and nothing that adds time: the cook estimate is at
\* its floor of 10, the prep estimate at its floor of 5
C25_Witness ==
    /\ time_estimates # << >>
    /\ HasQuickWord
    /\ num_ingredients = 3
    /\ time_estimates[1].cook_time_minutes = 10
    /\ time_estimates[1].prep_time_minutes = 5

\* the records of the run that counted as saved, skipped or failed
Accounted == stats.total_saved + stats.total_skipped + stats.total_errors

\* C26: at every point of a run of a new ingester saved + skipped + errors
\* and processed are at most fetched; when a live run is done
\* saved + skipped + errors equals fetched, and when a dry run is done
\* processed + errors equals fetched.
C26_CounterAccounting ==
    /\ Accounted <= stats.total_fetched
    /\ stats.total_processed <= stats.total_fetched
    /\ pc = "done" =>
          IF dry_run
          THEN stats.total_processed + stats.total_errors = stats.total_fetched
          ELSE Accounted = stats.total_fetched

\* a live run is done that skipped one of its two records and failed on the other
C26_Witness ==
    /\ pc = "done"
    /\ ~dry_run
    /\ stats.total_fetched = 2
    /\ stats.total_skipped = 1
    /\ stats.total_errors = 1

\* a dry run is done that normalized one of its two records and failed on the other
C26_DryWitness ==
    /\ pc = "done"
    /\ dry_run
    /\ stats.total_fetched = 2
    /\ stats.total_processed = 1
    /\ stats.total_errors = 1

\* the distinct ids among some records
DistinctIds(records) == {records[i].idMeal : i \in 1..Len(records)}

\* C27: fetch fills the limit. When fetch_recipes has returned for a
\* limit >= 1 and no network call failed, the result has exactly limit
\* records if the category loop stopped before its last category, and also
\* if the categories it listed hold at least limit distinct ids.
C27_FetchFillsLimit ==
    (pc \in {"processing", "done"} /\ ~fetchRaised /\ ~someFailed /\ limit >= 1) =>
        /\ catIdx < NumCategories => Len(raw_recipes) = limit
        /\ Cardinality(DistinctIds(all_recipes)) >= limit => Len(raw_recipes) = limit

\* the records whose stored flag of a tracked kind differs from its value
\* when the run started
StoredChanges(kind) ==
    {i \in DOMAIN table : table[i]["is_" \o kind] # table0[i]["is_" \o kind]}

\* C28: the report matches the store. When a run that is not a dry run is
\* done, the fixed count of each tracked flag is the number of records
\* whose stored value of the flag changed during the run, failed updates
\* included.
C28_FixReportMatchesStore ==
    (fix_pc = "done" /\ ~fix_dry_run) =>
        \A kind \in TrackedKinds :
            fixes_made[kind].fixed = Cardinality(StoredChanges(kind))

\* the orders of a list: the list after each permutation of its positions
Orders(ings) ==
    {[i \in DOMAIN ings |-> ings[p[i]]] : p \in Permutations(DOMAIN ings)}

\* the four keyword lists of the ingester's classifier
KeywordLists == {meat_keywords, dairy_keywords, gluten_keywords, nut_keywords}

\* some keyword occurs in the joined text of a list and in none of its
\* names: it is matched across a boundary between names
MatchesAcross(ings) ==
    \E keywords \in KeywordLists : \E j \in 1..Len(keywords) :
        /\ KeywordIn(keywords[j], IngredientText(ings))
        /\ \A i \in DOMAIN ings : ~KeywordIn(keywords[j], Lower(ings[i].name))

\* C29 as claimed: the classifier returns the same flags for every order of
\* an ingredient list.
C29_OrderIndependence ==
    dietary_flags # << >> =>
        \A other \in Orders(ingredients) :
            DetectDietaryRestrictions(other) = dietary_flags[1]

\* C29, amended: the classifier returns the same flags for every order of
\* an ingredient list in which, as in the list itself, no keyword is
\* matched across a boundary between names.
C29_OrderIndependenceAmended ==
    (dietary_flags # << >> /\ ~MatchesAcross(ingredients)) =>
        \A other \in Orders(ingredients) :
            ~MatchesAcross(other) =>
                DetectDietaryRestrictions(other) = dietary_flags[1]

\* two different names were classified, one of them holds a dairy keyword,
\* and neither order matches a keyword across the boundary
C29_Witness ==
    /\ dietary_flags # << >>
    /\ Len(ingredients) = 2
    /\ ingredients[1].name = "rice"
    /\ ingredients[2].name = "Butter"
    /\ ~dietary_flags[1].is_dairy_free
    /\ \A other \in Orders(ingredients) : ~MatchesAcross(other)

\* C30: the limit is an upper bound. Once the fetch of a run has returned,
\* and at the end of the run, total_fetched is at most the limit of the
\* call, limit 0 included, and at most limit records have been handed to
\* the normalizer, normalized and saved.
C30_LimitUpperBound ==
    pc \in {"processing", "done"} =>
        /\ stats.total_fetched <= limit
        /\ Len(attempted) <= limit
        /\ stats.total_processed <= limit
        /\ stats.total_saved <= limit

====
